---- MODULE Spec2Model ----
(***************************************************************************)
(* Lumen: the two-call orchestrator (ask_question / run_edited_sql) and    *)
(* the pure components it drives: validate_sql, execute_query,             *)
(* build_trend_sql, validate_chart_spec, auto_detect_chart, apply_theme.   *)
(*                                                                         *)
(* An optional value (Python None / a value) is a sequence of length 0     *)
(* or 1.  A Python dict with a fixed vocabulary of keys is a record of     *)
(* strings in which "" stands for an absent key.                           *)
(***************************************************************************)
EXTENDS Integers, Sequences, FiniteSets, TLC

VARIABLES
    pc,             \* position of the running generator
    fn,             \* "none" | "ask" | "run": which generator was invoked
    inp,            \* the invocation's arguments
    events,         \* the SSE events yielded so far, in order
    messages,       \* ask_question: the planner conversation
    tool_input,     \* ask_question: the plan of the current attempt
    sql,            \* the working sql
    chart_spec,     \* the working chart spec
    attempt,        \* ask_question: loop variable of the retry loop
    retry_count,    \* ask_question: retry_count
    agent_steps,    \* ask_question: agent_steps
    cell_result,    \* the working result (None before an execution succeeds)
    whatif,         \* is_whatif, whatif_meta, whatif_caveats
    auto_detected,  \* auto_detected
    artifact,       \* the Cell carried by the cell event (None before it)
    log,            \* calls made to the collaborators (history)
    call,           \* the component call in progress (validate_sql, execute_query)
    ret,            \* what the last component call returned (None before it)
    conns,          \* every database connection opened so far
    delivered,      \* server.py: the events sent to the HTTP caller, in order
    store,          \* server.py: the cells persisted by the notebook store
    fault           \* the collaborator that raised ("" when none did)

generator_vars == <<pc, fn, inp, events, messages, tool_input, sql, chart_spec, attempt,
                    retry_count, agent_steps, cell_result, whatif, auto_detected,
                    artifact, log>>

component_vars == <<call, ret, conns>>

server_vars == <<delivered, store, fault>>

vars == <<generator_vars, component_vars, server_vars>>

None == <<>>
Some(x) == <<x>>

----------------------------------------------------------------------------
(* core.py: Diag and Result *)

Diag(severity, code, detail, hint) ==
    [severity |-> severity, code |-> code, detail |-> detail, hint |-> hint]

has_errors(result) ==
    \E i \in DOMAIN result.diagnostics : result.diagnostics[i].severity = "error"

ok(result) == ~has_errors(result)

EmptyResult == [data |-> None, diagnostics |-> <<>>]

WithError(result, code, detail, hint) ==
    [result EXCEPT !.diagnostics = Append(@, Diag("error", code, detail, hint))]

WithWarning(result, code, detail, hint) ==
    [result EXCEPT !.diagnostics = Append(@, Diag("warning", code, detail, hint))]

----------------------------------------------------------------------------
(* SQL text.  A text is the source of a statement list plus surrounding   *)
(* whitespace; a trend-wrapped text holds the baseline text it embeds and  *)
(* the parameters written into it.  ParseOf gives what pglast.parse_sql    *)
(* makes of a source:                                                      *)
(* a parse error, or the statements, each the list of the type names of    *)
(* its AST nodes in visiting order (the first is the statement itself).    *)

PlainSql(src, padded) ==
    [src |-> src, padded |-> padded, trend |-> FALSE, baseline |-> None,
     time_field |-> "", measure |-> "", periods |-> 0, interval |-> ""]

ParseOf(src) ==
    CASE src = "select"      -> [parses |-> TRUE,  stmts |-> << <<"SelectStmt">> >>]
      [] src = "select_sub"  -> [parses |-> TRUE,  stmts |-> << <<"SelectStmt", "SelectStmt">> >>]
      [] src = "cte_delete"  -> [parses |-> TRUE,  stmts |-> << <<"SelectStmt", "DeleteStmt">> >>]
      [] src = "cte_ins_upd" -> [parses |-> TRUE,
                                 stmts |-> << <<"SelectStmt", "InsertStmt", "SelectStmt", "UpdateStmt">> >>]
      [] src = "cte_del_del" -> [parses |-> TRUE,
                                 stmts |-> << <<"SelectStmt", "DeleteStmt", "DeleteStmt">> >>]
      [] src = "insert_select" -> [parses |-> TRUE,
                                   stmts |-> << <<"InsertStmt", "SelectStmt">> >>]
      [] src = "drop"        -> [parses |-> TRUE,  stmts |-> << <<"DropStmt">> >>]
      [] src = "two_selects" -> [parses |-> TRUE,  stmts |-> << <<"SelectStmt">>, <<"SelectStmt">> >>]
      [] src = "empty"       -> [parses |-> TRUE,  stmts |-> <<>>]
      [] OTHER               -> [parses |-> FALSE, stmts |-> <<>>]

SqlSources ==
    {"select", "select_sub", "cte_delete", "cte_ins_upd", "cte_del_del", "insert_select",
     "drop", "two_selects", "empty", "syntax_error"}

_FORBIDDEN_NODE_TAGS ==
    {"InsertStmt", "UpdateStmt", "DeleteStmt", "CreateStmt", "DropStmt",
     "AlterTableStmt", "TruncateStmt", "GrantStmt", "RevokeStmt",
     "CreateFunctionStmt", "CreateRoleStmt", "CopyStmt", "CreateSchemaStmt",
     "CreateTableAsStmt"}

RECURSIVE Flatten(_)
Flatten(ss) == IF ss = <<>> THEN <<>> ELSE Head(ss) \o Flatten(Tail(ss))

IsForbiddenTag(tag) == tag \in _FORBIDDEN_NODE_TAGS

(* _ForbiddenNodeChecker: the forbidden tags met, in visiting order *)
ForbiddenNodeChecker(stmts) == SelectSeq(Flatten(stmts), IsForbiddenTag)

(* mutant of ForbiddenErrors: only the first forbidden node is reported *)
ForbiddenErrorsFirstOnly(result, tags) ==
    IF tags = <<>> THEN result
    ELSE WithError(result, "VALIDATION_ERROR", Head(tags), "")

RECURSIVE ForbiddenErrors(_, _)
ForbiddenErrors(result, tags) ==
    IF tags = <<>> THEN result
    ELSE ForbiddenErrors(WithError(result, "VALIDATION_ERROR", Head(tags), ""), Tail(tags))

(* mutant of strip: the text is returned as given *)
StripNothing(text) == text

strip(text) == [text EXCEPT !.padded = FALSE]

(* pglast.parse_sql: a trend-wrapped text is one SELECT with CTEs around  *)
(* the embedded baseline, and parses when the baseline is one statement    *)
parse_sql(text) ==
    IF text.trend
    THEN LET inner == ParseOf(text.baseline[1].src)
         IN  IF inner.parses /\ Len(inner.stmts) = 1
             THEN [parses |-> TRUE,
                   stmts |-> << <<"SelectStmt", "SelectStmt">> \o inner.stmts[1] >>]
             ELSE [parses |-> FALSE, stmts |-> <<>>]
    ELSE ParseOf(text.src)

(* mutant of validate_sql: a parse error is reported as a validation error *)
ValidateSqlParseAsValidationError(text) ==
    LET parsed == parse_sql(text)
        stmts  == parsed.stmts
    IN  IF ~parsed.parses
        THEN WithError(EmptyResult, "VALIDATION_ERROR", "parse", "")
        ELSE IF Len(stmts) # 1
        THEN WithError(EmptyResult, "VALIDATION_ERROR", "statement_count", "")
        ELSE IF Head(stmts[1]) # "SelectStmt"
        THEN WithError(EmptyResult, "VALIDATION_ERROR", Head(stmts[1]), "")
        ELSE LET checked == ForbiddenErrors(EmptyResult, ForbiddenNodeChecker(stmts))
             IN  IF ok(checked) THEN [checked EXCEPT !.data = Some(strip(text))]
                 ELSE checked

validate_sql(text) ==
    LET parsed == parse_sql(text)
        stmts  == parsed.stmts
    IN  IF ~parsed.parses
        THEN WithError(EmptyResult, "SQL_PARSE_ERROR", "parse", "")
        ELSE IF Len(stmts) # 1
        THEN WithError(EmptyResult, "VALIDATION_ERROR", "statement_count", "")
        ELSE IF Head(stmts[1]) # "SelectStmt"
        THEN WithError(EmptyResult, "VALIDATION_ERROR", Head(stmts[1]), "")
        ELSE LET checked == ForbiddenErrors(EmptyResult, ForbiddenNodeChecker(stmts))
             IN  IF ok(checked) THEN [checked EXCEPT !.data = Some(strip(text))]
                 ELSE checked

----------------------------------------------------------------------------
(* executor.py: execute_query.  The database is a collaborator: what it    *)
(* does with one statement is a record db,                                 *)
(*   kind  "connect_fail" | "timeout" | "pg_error" | "unexpected" | "rows" *)
(*   n     the number of rows conn.fetch returns                           *)
(*   shape the columns of those rows                                       *)
(*   msg   the class of the Postgres error message                         *)

MaxResultRows == 2      \* config.settings.max_result_rows, scaled down

Db(kind, n, shape, msg) == [kind |-> kind, n |-> n, shape |-> shape, msg |-> msg]

ShapeColumns(shape) ==
    CASE shape = "cat_measure"  -> <<"name", "revenue">>
      [] shape = "time_measure" -> <<"month", "revenue">>
      [] shape = "measure"      -> <<"revenue">>
      [] OTHER                  -> <<"note", "tag">>

ShapeTypes(shape) ==
    CASE shape = "cat_measure"  -> <<"str", "float">>
      [] shape = "time_measure" -> <<"date", "float">>
      [] shape = "measure"      -> <<"float">>
      [] OTHER                  -> <<"UUID", "bytes">>

(* the columns of the first fetched row: a trend-wrapped statement selects *)
(* its time field, its measure and period_type                             *)
RowColumns(db, text) ==
    IF text.trend THEN <<text.time_field, text.measure, "period_type">>
    ELSE ShapeColumns(db.shape)

RowTypes(db, text) ==
    IF text.trend THEN <<"datetime", "float", "str">> ELSE ShapeTypes(db.shape)

CellResult(columns, column_types, data, truncated, diagnostics) ==
    [columns |-> columns, column_types |-> column_types, row_count |-> Len(data),
     data |-> data, truncated |-> truncated, diagnostics |-> diagnostics]

EmptyCellResult == CellResult(<<>>, <<>>, <<>>, FALSE, <<>>)

suggest_fix(msg) ==
    CASE msg = "column_missing"   -> "Check column names against the schema"
      [] msg = "relation_missing" -> "Check table names against the schema"
      [] msg = "syntax"           -> "Check SQL syntax"
      [] msg = "permission"       -> "The database user lacks permissions for this operation"
      [] OTHER                    -> ""

(* mutant of Truncated: a fetch of exactly max_rows rows counts as truncated *)
TruncatedAtCap(rows, max_rows) == Len(rows) >= max_rows

Truncated(rows, max_rows) == Len(rows) > max_rows

execute_query(db, text, max_rows) ==
    LET rows == [i \in 1..db.n |-> i]
    IN  CASE db.kind = "connect_fail" ->
                WithError(EmptyResult, "SQL_ERROR", "connection", "")
          [] db.kind = "timeout" ->
                WithError(EmptyResult, "SQL_TIMEOUT", "timeout", "Simplify the query or add filters")
          [] db.kind = "pg_error" ->
                WithError(EmptyResult, "SQL_ERROR", db.msg, suggest_fix(db.msg))
          [] db.kind = "unexpected" ->
                WithError(EmptyResult, "SQL_ERROR", "unexpected", "")
          [] OTHER ->
                IF Len(rows) = 0
                THEN WithWarning([EmptyResult EXCEPT !.data = Some(EmptyCellResult)],
                                 "EMPTY_RESULT", "no_rows", "")
                ELSE LET truncated == Truncated(rows, max_rows)
                         kept == IF truncated THEN SubSeq(rows, 1, max_rows) ELSE rows
                         diags == IF truncated
                                  THEN <<Diag("warning", "RESULT_TRUNCATED", "truncated",
                                              "Add a LIMIT clause to your query")>>
                                  ELSE <<>>
                     IN  [EmptyResult EXCEPT !.data =
                            Some(CellResult(RowColumns(db, text), RowTypes(db, text),
                                            kept, truncated, diags))]

----------------------------------------------------------------------------
(* Chart specs (Vega-Lite documents).                                      *)
(*   mark      [form, type, props]: form "absent" | "str" | "dict" |       *)
(*             "other"; type is the named mark type, "" when none          *)
(*   encoding  [form, ch]: form "absent" | "object" | "other"; ch maps     *)
(*             each channel present to its definition                      *)
(*   layer     [form, units]: form "absent" | "list" | "other"             *)
(*   config    [present, entries]: entries maps each config key present    *)
(*             to a scalar or to a nested object                           *)

Mark(form, type, props) == [form |-> form, type |-> type, props |-> props]
NoMark == Mark("absent", "", "")

Chan(field, type, extra) ==
    [isdict |-> TRUE, field |-> field, type |-> type, extra |-> extra]
ScalarChan == [isdict |-> FALSE, field |-> "", type |-> "", extra |-> ""]

Encoding(ch) == [form |-> "object", ch |-> ch]
NoEncoding == [form |-> "absent", ch |-> <<>>]
BadEncoding == [form |-> "other", ch |-> <<>>]

Unit(mark, encoding, transform) ==
    [isdict |-> TRUE, mark |-> mark, encoding |-> encoding, transform |-> transform]
NonObjectLayer == [isdict |-> FALSE, mark |-> NoMark, encoding |-> NoEncoding, transform |-> ""]

NoLayer == [form |-> "absent", units |-> <<>>]
Layers(units) == [form |-> "list", units |-> units]

NoConfig == [present |-> FALSE, entries |-> <<>>]
Config(entries) == [present |-> TRUE, entries |-> entries]
Scalar(v) == [isdict |-> FALSE, scalar |-> v, entries |-> <<>>]
Object(entries) == [isdict |-> TRUE, scalar |-> "", entries |-> entries]

ChartSpec(mark, encoding, layer, transform, width, height, config, schema) ==
    [mark |-> mark, encoding |-> encoding, layer |-> layer, transform |-> transform,
     width |-> width, height |-> height, config |-> config, schema |-> schema]

EmptySpec == ChartSpec(NoMark, NoEncoding, NoLayer, "", "", "", NoConfig, "")

SingleSpec(mark, encoding, transform, width, height) ==
    ChartSpec(mark, encoding, NoLayer, transform, width, height, NoConfig, "")

(* `not spec`: the dict has no key *)
IsEmptySpec(spec) ==
    /\ spec.mark.form = "absent"
    /\ spec.encoding.form = "absent"
    /\ spec.layer.form = "absent"
    /\ spec.transform = "" /\ spec.width = "" /\ spec.height = ""
    /\ ~spec.config.present
    /\ spec.schema = ""

_VALID_MARK_TYPES ==
    {"bar", "line", "point", "area", "rect", "text", "arc", "circle", "square", "tick"}
_VALID_ENCODING_TYPES == {"nominal", "ordinal", "quantitative", "temporal"}

Range(s) == {s[i] : i \in DOMAIN s}

(* encoding.items() in a fixed order of the channels *)
ChannelOrder == <<"x", "y", "color", "text", "size">>
IsChannelOf(ch, name) == name \in DOMAIN ch

(* mutant of FieldUnknown: the field check is made for empty columns too *)
FieldUnknownAlways(field, columns) == field # "" /\ field \notin Range(columns)

FieldUnknown(field, columns) ==
    field # "" /\ Range(columns) # {} /\ field \notin Range(columns)

TypeInvalid(enc_type) == enc_type # "" /\ enc_type \notin _VALID_ENCODING_TYPES

MarkInvalid(mark) ==
    LET mark_type == IF mark.form \in {"str", "dict"} THEN mark.type ELSE ""
    IN  mark_type # "" /\ mark_type \notin _VALID_MARK_TYPES

RECURSIVE ChannelErrors(_, _, _, _)
ChannelErrors(result, ch, names, columns) ==
    IF names = <<>> THEN result
    ELSE LET channel == Head(names)
             enc_def == ch[channel]
             r1 == IF FieldUnknown(enc_def.field, columns)
                   THEN WithError(result, "CHART_UNKNOWN_FIELD", channel, "")
                   ELSE result
             r2 == IF TypeInvalid(enc_def.type)
                   THEN WithError(r1, "CHART_INVALID_TYPE", channel, "")
                   ELSE r1
         IN  IF ~IsChannelOf(ch, channel) THEN ChannelErrors(result, ch, Tail(names), columns)
             ELSE IF ~enc_def.isdict THEN ChannelErrors(result, ch, Tail(names), columns)
             ELSE ChannelErrors(r2, ch, Tail(names), columns)

validate_single_spec(unit, columns) ==
    LET marked == IF unit.mark.form = "absent"
                  THEN WithError(EmptyResult, "CHART_NO_MARK", "mark", "")
                  ELSE IF MarkInvalid(unit.mark)
                  THEN WithError(EmptyResult, "CHART_INVALID_MARK", unit.mark.type, "")
                  ELSE EmptyResult
    IN  IF unit.encoding.form = "absent"
        THEN WithError(marked, "CHART_NO_ENCODING", "encoding", "")
        ELSE IF unit.encoding.form # "object"
        THEN WithError(marked, "CHART_INVALID_ENCODING", "encoding", "")
        ELSE ChannelErrors(marked, unit.encoding.ch, ChannelOrder, columns)

RECURSIVE LayerErrors(_, _, _)
LayerErrors(result, units, columns) ==
    IF units = <<>> THEN result
    ELSE LET layer == Head(units)
             next == IF ~layer.isdict
                     THEN WithError(result, "CHART_INVALID_LAYER", "layer", "")
                     ELSE [result EXCEPT !.diagnostics =
                              @ \o validate_single_spec(layer, columns).diagnostics]
         IN  LayerErrors(next, Tail(units), columns)

validate_chart_spec(spec, columns) ==
    IF IsEmptySpec(spec)
    THEN WithError(EmptyResult, "CHART_EMPTY", "empty", "")
    ELSE LET checked == IF spec.layer.form = "list"
                        THEN LayerErrors(EmptyResult, spec.layer.units, columns)
                        ELSE validate_single_spec(spec, columns)
         IN  IF ok(checked) THEN [checked EXCEPT !.data = Some(spec)] ELSE checked

----------------------------------------------------------------------------
(* viz/theme.py: LUMEN_THEME and apply_theme.  Nested values are kept as   *)
(* opaque strings: the merge never looks below the second level.           *)

LUMEN_THEME ==
    [font       |-> Scalar("Inter"),
     axis       |-> Object([labelFontSize |-> "11", titleFontSize |-> "12", gridColor |-> "#e0e0e0"]),
     legend     |-> Object([labelFontSize |-> "11", titleFontSize |-> "12"]),
     title      |-> Object([fontSize |-> "14", fontWeight |-> "600"]),
     bar        |-> Object([cornerRadiusEnd |-> "3"]),
     line       |-> Object([strokeWidth |-> "2", point |-> "size=40"]),
     point      |-> Object([size |-> "60", opacity |-> "0.7"]),
     area       |-> Object([opacity |-> "0.7", line |-> "true"]),
     range      |-> Object([category |-> "LUMEN_PALETTE"]),
     view       |-> Object([strokeWidth |-> "0"]),
     padding    |-> Object([row |-> "10", column |-> "10"]),
     background |-> Scalar("transparent")]

VEGA_SCHEMA == "https://vega.github.io/schema/vega-lite/v5.json"

(* dict(a); .update(b): the keys of both, b's value where both have one *)
Updated(a, b) ==
    [k \in (DOMAIN a) \cup (DOMAIN b) |-> IF k \in DOMAIN b THEN b[k] ELSE a[k]]

(* mutant of MergedConfigValue: the theme's value replaces an existing one *)
MergedConfigDefaultsWin(key, existing_config) ==
    IF key \in DOMAIN LUMEN_THEME THEN LUMEN_THEME[key] ELSE existing_config[key]

MergedConfigValue(key, existing_config) ==
    IF key \notin DOMAIN existing_config /\ key \in DOMAIN LUMEN_THEME
    THEN LUMEN_THEME[key]
    ELSE IF key \in DOMAIN LUMEN_THEME
            /\ LUMEN_THEME[key].isdict /\ existing_config[key].isdict
    THEN Object(Updated(LUMEN_THEME[key].entries, existing_config[key].entries))
    ELSE existing_config[key]

apply_theme(spec) ==
    LET existing_config == IF spec.config.present THEN spec.config.entries ELSE <<>>
        merged == [key \in (DOMAIN existing_config) \cup (DOMAIN LUMEN_THEME) |->
                      MergedConfigValue(key, existing_config)]
    IN  [spec EXCEPT !.config = Config(merged),
                     !.schema = IF @ = "" THEN VEGA_SCHEMA ELSE @]

----------------------------------------------------------------------------
(* viz/auto_detect.py *)

PRIMARY == "#3b5998"

(* an enriched schema is a list of tables, a table a list of [name, role] *)
RECURSIVE RoleOfIn(_, _)
RoleOfIn(col, cols) ==
    IF cols = <<>> THEN ""
    ELSE IF Head(cols).name = col THEN Head(cols).role
    ELSE RoleOfIn(col, Tail(cols))

(* _build_role_map: the first table column of that name decides *)
build_role_map(enriched, col) == RoleOfIn(col, Flatten(enriched))

infer_role_from_type(col_type) ==
    CASE col_type \in {"date", "datetime", "timestamp"} -> "time_dimension"
      [] col_type \in {"int", "float", "decimal", "Decimal", "numeric", "int64", "float64"} -> "numeric"
      [] col_type \in {"str", "string", "text", "varchar"} -> "categorical"
      [] col_type \in {"bool", "boolean"} -> "categorical"
      [] OTHER -> "other"

(* the list a result column is appended to: "time" | "cat" | "measure" *)
ColumnClass(col, col_type, enriched) ==
    LET known == build_role_map(enriched, col)
        role == IF known # "" THEN known ELSE infer_role_from_type(col_type)
    IN  CASE role = "time_dimension" -> "time"
          [] role = "categorical" -> "cat"
          [] role \in {"measure_candidate", "numeric"} -> "measure"
          [] role = "key" -> "cat"
          [] OTHER -> IF col_type \in {"int", "float", "Decimal", "int64", "float64", "numeric"}
                      THEN "measure" ELSE "cat"

RECURSIVE ColsOfClass(_, _, _, _)
ColsOfClass(class, columns, column_types, enriched) ==
    IF columns = <<>> THEN <<>>
    ELSE LET rest == ColsOfClass(class, Tail(columns), Tail(column_types), enriched)
         IN  IF ColumnClass(Head(columns), Head(column_types), enriched) = class
             THEN <<Head(columns)>> \o rest ELSE rest

ColorValue == Chan("", "", "value=#3b5998")

bar_spec(x, y) ==
    SingleSpec(Mark("dict", "bar", "cornerRadiusEnd=3"),
               Encoding([x |-> Chan(x, "nominal", "sort=-y"),
                         y |-> Chan(y, "quantitative", ""),
                         color |-> ColorValue]),
               "", "container", "300")

line_spec(x, y) ==
    SingleSpec(Mark("dict", "line", "point=true"),
               Encoding([x |-> Chan(x, "temporal", ""),
                         y |-> Chan(y, "quantitative", ""),
                         color |-> ColorValue]),
               "", "container", "300")

scatter_spec(x, y) ==
    SingleSpec(Mark("dict", "point", "filled=true"),
               Encoding([x |-> Chan(x, "quantitative", ""),
                         y |-> Chan(y, "quantitative", ""),
                         color |-> ColorValue]),
               "", "container", "300")

stacked_area_spec(time_col, measure_cols) ==
    SingleSpec(Mark("dict", "area", "opacity=0.7,line=true"),
               Encoding([x |-> Chan(time_col, "temporal", ""),
                         y |-> Chan("value", "quantitative", "stack=zero"),
                         color |-> Chan("metric", "nominal", "")]),
               "fold", "container", "300")

kpi_spec(field) ==
    SingleSpec(Mark("dict", "text", "fontSize=48"),
               Encoding([text |-> Chan(field, "quantitative", "format")]),
               "", "container", "80")

(* mutant of auto_detect_chart: the line rule is tried before the area rule *)
AutoDetectLineFirst(columns, column_types, enriched) ==
    LET time_cols    == ColsOfClass("time", columns, column_types, enriched)
        cat_cols     == ColsOfClass("cat", columns, column_types, enriched)
        measure_cols == ColsOfClass("measure", columns, column_types, enriched)
    IN  CASE time_cols = <<>> /\ cat_cols = <<>> /\ Len(measure_cols) = 1 ->
                apply_theme(kpi_spec(measure_cols[1]))
          [] time_cols # <<>> /\ measure_cols # <<>> ->
                apply_theme(line_spec(time_cols[1], measure_cols[1]))
          [] time_cols # <<>> /\ Len(measure_cols) >= 2 ->
                apply_theme(stacked_area_spec(time_cols[1], measure_cols))
          [] cat_cols # <<>> /\ measure_cols # <<>> ->
                apply_theme(bar_spec(cat_cols[1], measure_cols[1]))
          [] Len(measure_cols) >= 2 ->
                apply_theme(scatter_spec(measure_cols[1], measure_cols[2]))
          [] Len(columns) >= 2 ->
                apply_theme(bar_spec(columns[1], columns[2]))
          [] columns # <<>> ->
                apply_theme(kpi_spec(columns[1]))
          [] OTHER ->
                apply_theme(SingleSpec(Mark("str", "text", ""), Encoding(<<>>), "", "", ""))

auto_detect_chart(columns, column_types, enriched) ==
    LET time_cols    == ColsOfClass("time", columns, column_types, enriched)
        cat_cols     == ColsOfClass("cat", columns, column_types, enriched)
        measure_cols == ColsOfClass("measure", columns, column_types, enriched)
        numeric_cols == measure_cols
    IN  CASE time_cols = <<>> /\ cat_cols = <<>> /\ Len(measure_cols) = 1 ->
                apply_theme(kpi_spec(measure_cols[1]))
          [] time_cols # <<>> /\ Len(measure_cols) >= 2 ->
                apply_theme(stacked_area_spec(time_cols[1], measure_cols))
          [] time_cols # <<>> /\ measure_cols # <<>> ->
                apply_theme(line_spec(time_cols[1], measure_cols[1]))
          [] cat_cols # <<>> /\ measure_cols # <<>> ->
                apply_theme(bar_spec(cat_cols[1], measure_cols[1]))
          [] Len(numeric_cols) >= 2 ->
                apply_theme(scatter_spec(numeric_cols[1], numeric_cols[2]))
          [] Len(columns) >= 2 ->
                apply_theme(bar_spec(columns[1], columns[2]))
          [] columns # <<>> ->
                apply_theme(kpi_spec(columns[1]))
          [] OTHER ->
                apply_theme(SingleSpec(Mark("str", "text", ""), Encoding(<<>>), "", "", ""))

----------------------------------------------------------------------------
(* whatif/chart.py, whatif/explain.py *)

build_trend_chart(time_field, measure) ==
    apply_theme(
        ChartSpec(NoMark, NoEncoding,
                  Layers(<<
                    Unit(Mark("dict", "line", "point=circle"),
                         Encoding([x |-> Chan(time_field, "temporal", ""),
                                   y |-> Chan(measure, "quantitative", ""),
                                   color |-> Chan("", "", "value=#3b5998")]),
                         "filter=actual"),
                    Unit(Mark("dict", "line", "point=diamond,strokeDash"),
                         Encoding([x |-> Chan(time_field, "temporal", ""),
                                   y |-> Chan(measure, "quantitative", ""),
                                   color |-> Chan("", "", "value=#c67a3c")]),
                         "filter=projected") >>),
                  "", "container", "300", NoConfig, ""))

(* the caveats name the periods and the interval they were generated for *)
generate_caveats(technique, periods_ahead, period_interval) ==
    IF technique = "trend_extrapolation"
    THEN <<[caveat |-> "projects", periods |-> periods_ahead, interval |-> period_interval],
           [caveat |-> "assumes_trend", periods |-> 0, interval |-> ""],
           [caveat |-> "r_squared", periods |-> 0, interval |-> ""],
           [caveat |-> "extrapolation", periods |-> 0, interval |-> ""]>>
    ELSE <<[caveat |-> "unknown_technique", periods |-> 0, interval |-> ""]>>

----------------------------------------------------------------------------
(* whatif/trend.py *)

_VALID_INTERVALS == {"day", "week", "month", "quarter", "year"}
_MAX_PERIODS == 24

(* TrendParams(...): pydantic validates periods_ahead against ge=1, le=24 *)
(* and raises ValidationError when it is out of range                     *)
TrendParamsRaises(periods_ahead) == periods_ahead < 1 \/ periods_ahead > _MAX_PERIODS

TrendParams(time_field, measure, periods_ahead, period_interval) ==
    [time_field |-> time_field, measure |-> measure,
     periods_ahead |-> periods_ahead, period_interval |-> period_interval]

TrendText(baseline_sql, time_col, measure_col, periods, interval) ==
    [src |-> "trend_wrapper", padded |-> FALSE, trend |-> TRUE,
     baseline |-> Some(baseline_sql), time_field |-> time_col,
     measure |-> measure_col, periods |-> periods, interval |-> interval]

IntervalInvalid(interval) == interval \notin _VALID_INTERVALS

PeriodsInvalid(periods) == periods < 1 \/ periods > _MAX_PERIODS

build_trend_sql(baseline_sql, params) ==
    IF IntervalInvalid(params.period_interval)
    THEN WithError(EmptyResult, "TREND_INVALID_INTERVAL", params.period_interval,
                   "Must be one of: day, month, quarter, week, year")
    ELSE IF PeriodsInvalid(params.periods_ahead)
    THEN WithError(EmptyResult, "TREND_INVALID_PERIODS", "periods_ahead", "")
    ELSE [EmptyResult EXCEPT !.data =
            Some([sql |-> TrendText(baseline_sql, params.time_field, params.measure,
                                    params.periods_ahead, params.period_interval),
                  baseline_sql |-> baseline_sql,
                  time_field |-> params.time_field,
                  measure |-> params.measure,
                  periods_ahead |-> params.periods_ahead,
                  period_interval |-> params.period_interval])]

----------------------------------------------------------------------------
(* agent/agent.py: events, plans, messages *)

MAX_RETRIES == 3

stage_event(stage) == [event |-> "stage", stage |-> stage, code |-> "", message |-> ""]
cell_event == [event |-> "cell", stage |-> "", code |-> "", message |-> ""]
error_event(message, code) == [event |-> "error", stage |-> "", code |-> code, message |-> message]

(* the whatif object of a plan: keys are the keys it holds *)
WhatIfInput(keys, technique, time_field, measure, periods_ahead, period_interval) ==
    [present |-> TRUE, keys |-> keys, technique |-> technique, time_field |-> time_field,
     measure |-> measure, periods_ahead |-> periods_ahead, period_interval |-> period_interval]
NoWhatIf ==
    [present |-> FALSE, keys |-> {}, technique |-> "", time_field |-> "",
     measure |-> "", periods_ahead |-> 0, period_interval |-> ""]

(* whatif_input.get(key, default) *)
Get(w, key, default) == IF key \in w.keys THEN w[key] ELSE default

Plan(reasoning, text, spec, w) ==
    [reasoning |-> reasoning, sql |-> text, chart_spec |-> spec, whatif |-> w]

(* a response is its list of content blocks *)
ToolUse(name, input) == [type |-> "tool_use", name |-> name, input |-> Some(input)]
TextBlock == [type |-> "text", name |-> "", input |-> None]

RECURSIVE extract_tool_input(_, _)
extract_tool_input(response, tool_name) ==
    IF response = <<>> THEN None
    ELSE IF Head(response).type = "tool_use" /\ Head(response).name = tool_name
    THEN Head(response).input
    ELSE extract_tool_input(Tail(response), tool_name)

RECURSIVE Messages(_)
Messages(diags) ==
    IF diags = <<>> THEN <<>>
    ELSE <<[code |-> Head(diags).code, detail |-> Head(diags).detail]>> \o Messages(Tail(diags))

IsError(d) == d.severity = "error"
HasHint(d) == d.hint # ""

RECURSIVE Hints(_)
Hints(diags) ==
    IF diags = <<>> THEN <<>> ELSE <<Head(diags).hint>> \o Hints(Tail(diags))

QuestionMessage(question) ==
    [role |-> "user", type |-> "text", id |-> -1, input |-> None,
     content |-> [kind |-> "question", text |-> question, errors |-> <<>>, hints |-> <<>>]]

(* mutant of ToolUseMessage: every correction uses the same id *)
ToolUseMessageSameId(n, input) ==
    [role |-> "assistant", type |-> "tool_use", id |-> 0, input |-> Some(input),
     content |-> [kind |-> "", text |-> "", errors |-> <<>>, hints |-> <<>>]]

ToolUseMessage(n, input) ==
    [role |-> "assistant", type |-> "tool_use", id |-> n, input |-> Some(input),
     content |-> [kind |-> "", text |-> "", errors |-> <<>>, hints |-> <<>>]]

ToolResultMessage(n, kind, errors, hints) ==
    [role |-> "user", type |-> "tool_result", id |-> n, input |-> None,
     content |-> [kind |-> kind, text |-> "", errors |-> errors, hints |-> hints]]

(* lines 150-169: the feedback for a validation failure *)
ValidationFeedback(n, input, validation) ==
    <<ToolUseMessage(n, input),
      ToolResultMessage(n, "SQL validation failed", Messages(validation.diagnostics), <<>>)>>

(* lines 190-215: the feedback for an execution error *)
ExecutionFeedback(n, input, exec_result) ==
    <<ToolUseMessage(n, input),
      ToolResultMessage(n, "SQL execution error",
                        Messages(SelectSeq(exec_result.diagnostics, IsError)),
                        Hints(SelectSeq(exec_result.diagnostics, HasHint)))>>

(* mutants of AttemptsRemain: one more round; a budget per failure kind *)
AttemptsRemainOneMore(n) == n <= MAX_RETRIES
AttemptsRemainPerKind(n) ==
    \/ Cardinality({j \in DOMAIN log.valid : ~log.valid[j].ok}) < MAX_RETRIES
    \/ Cardinality({i \in DOMAIN log.exec : ~log.exec[i].ok}) < MAX_RETRIES

AttemptsRemain(n) == n < MAX_RETRIES

(* mutants of ValidationFailed: only a parse error counts; the validation *)
(* result is ignored                                                        *)
ValidationFailsOnlyOnParseError(validation) ==
    \E i \in DOMAIN validation.diagnostics : validation.diagnostics[i].code = "SQL_PARSE_ERROR"


ValidationNeverFails(validation) == FALSE

ValidationFailed(validation) == ~ok(validation)

(* mutant of ExecutionFailed: execution diagnostics are ignored *)
ExecutionNeverFails(exec_result) == FALSE

ExecutionFailed(exec_result) == has_errors(exec_result)

(* mutant of NextRetryCount: the increment is forgotten *)
RetryCountNotIncremented(n) == n

NextRetryCount(n) == n + 1

(* mutant of whatif_input: the what-if request of an earlier attempt is   *)
(* kept when the last plan holds none                                      *)
WhatIfInputKept(input) ==
    LET earlier == {i \in DOMAIN messages :
                       messages[i].input # None /\ messages[i].input[1].whatif.present}
    IN  IF input[1].whatif.present \/ earlier = {}
        THEN input[1].whatif
        ELSE messages[CHOOSE i \in earlier : TRUE].input[1].whatif

(* line 139: whatif_input = tool_input.get("whatif"), read anew from the  *)
(* response of each attempt                                                *)
whatif_input(input) == input[1].whatif

(* mutant of WhatIfRequested: any technique enters the what-if branch *)
WhatIfRequestedAnyTechnique(w) == w.present /\ w.keys # {}

(* line 233 *)
WhatIfRequested(w) ==
    w.present /\ w.keys # {} /\ Get(w, "technique", "") = "trend_extrapolation"

TrendExecSucceeded(trend_exec) == ok(trend_exec) /\ trend_exec.data # None

(* lines 283-302: the chart of the artifact.  consulted tells whether    *)
(* validate_chart_spec was called.                                         *)
(* mutant of ChartIsInvalid: the planner's chart is always kept *)
ChartNeverInvalid(spec, columns) == FALSE

ChartIsInvalid(spec, columns) == ~ok(validate_chart_spec(spec, columns))

ResolveChart(is_whatif, w, spec, result, enriched) ==
    IF is_whatif /\ w.present /\ w.keys # {}
    THEN [spec |-> build_trend_chart(Get(w, "time_field", ""), Get(w, "measure", "")),
          auto_detected |-> TRUE, consulted |-> FALSE]
    ELSE IF ChartIsInvalid(spec, result.columns)
    THEN [spec |-> auto_detect_chart(result.columns, result.column_types, enriched),
          auto_detected |-> TRUE, consulted |-> TRUE]
    ELSE [spec |-> apply_theme(spec), auto_detected |-> FALSE, consulted |-> TRUE]

(* prompts.py, build_narrate_prompt as _narrate calls it at line 426, with *)
(* the caveats keyword: the prompt of the narrator call.  The prompts.py    *)
(* at hand declares no caveats parameter (line 137); the prompt builder is  *)
(* a collaborator of the orchestrator and is taken to accept the call and   *)
(* return, appending the caveats when there are some.                       *)
build_narrate_prompt(question, text, result, caveats) ==
    [question |-> question, sql |-> text, rows |-> result.row_count, caveats |-> caveats]

(* the input of a narrate_results block: keys are the keys it holds *)
Narration(keys, narrative, data_references) ==
    [keys |-> keys, narrative |-> narrative, data_references |-> data_references]

(* mutant of NarrativeOf: a missing narration is replaced by a placeholder *)
NarrativeOfWithPlaceholder(narrate_response) ==
    LET narrate_input == extract_tool_input(narrate_response, "narrate_results")
    IN  IF narrate_input # None /\ narrate_input[1].keys # {}
        THEN [text |-> Get(narrate_input[1], "narrative", ""),
              data_references |-> Get(narrate_input[1], "data_references", <<>>)]
        ELSE [text |-> "No narrative available", data_references |-> <<>>]

(* _narrate, after the call: (narrative_text, data_references) *)
NarrativeOf(narrate_response) ==
    LET narrate_input == extract_tool_input(narrate_response, "narrate_results")
    IN  IF narrate_input # None /\ narrate_input[1].keys # {}
        THEN [text |-> Get(narrate_input[1], "narrative", ""),
              data_references |-> Get(narrate_input[1], "data_references", <<>>)]
        ELSE [text |-> "", data_references |-> <<>>]

WhatIfMetadata(params, caveats) ==
    [technique |-> "trend_extrapolation",
     parameters |-> [time_field |-> params.time_field, measure |-> params.measure,
                     periods_ahead |-> params.periods_ahead,
                     period_interval |-> params.period_interval],
     caveats |-> caveats]

NoWhatIfState == [is_whatif |-> FALSE, caveats |-> <<>>, meta |-> None]

(* mutant of CellSQL: the edited_by_user flag keeps its default *)
CellSQLFlagDefault(query, edited_by_user) ==
    [query |-> query, generated_by |-> "llm", edited_by_user |-> FALSE]

CellSQL(query, edited_by_user) ==
    [query |-> query, generated_by |-> "llm", edited_by_user |-> edited_by_user]

CellChart(spec, detected) ==
    [spec |-> spec, auto_detected |-> detected, theme |-> "lumen-default"]

(* mutant of CellMetadata: the correcting steps are left out *)
CellMetadataWithoutCorrecting(steps, retries, reasoning, meta) ==
    [model |-> "model", agent_steps |-> SelectSeq(steps, LAMBDA step : step # "correcting"),
     retry_count |-> retries, reasoning |-> reasoning, whatif |-> meta]

CellMetadata(steps, retries, reasoning, meta) ==
    [model |-> "model", agent_steps |-> steps, retry_count |-> retries,
     reasoning |-> reasoning, whatif |-> meta]

Cell(id, created_at, question, context, query, result, chart, narrative, metadata) ==
    [id |-> id, created_at |-> created_at, question |-> question, context |-> context,
     sql |-> query, result |-> result, chart |-> chart, narrative |-> narrative,
     metadata |-> metadata]

CellContext(parent_cell_id, refinement_of, conversation_position) ==
    [parent_cell_id |-> parent_cell_id, refinement_of |-> refinement_of,
     conversation_position |-> conversation_position]

----------------------------------------------------------------------------
(* What the collaborators may answer *)

GoodChart ==
    SingleSpec(Mark("dict", "bar", ""),
               Encoding([x |-> Chan("name", "nominal", ""),
                         y |-> Chan("revenue", "quantitative", "")]),
               "", "container", "")

(* a valid spec that brings its own config and $schema *)
ThemedChart ==
    [SingleSpec(Mark("str", "line", ""),
                Encoding([x |-> Chan("month", "temporal", ""),
                          y |-> Chan("revenue", "quantitative", "")]),
                "", "container", "")
     EXCEPT !.config = Config([font |-> Scalar("Georgia"),
                               axis |-> Object([gridColor |-> "#fff", ticks |-> "false"]),
                               custom |-> Scalar("kept")]),
            !.schema = "https://vega.github.io/schema/vega-lite/v4.json"]

(* test_chart_fallback_to_auto_detect: no mark, an unknown field *)
BadChart ==
    SingleSpec(NoMark, Encoding([x |-> Chan("nonexistent", "", "")]), "", "", "")

TrendOk ==
    WhatIfInput({"technique", "time_field", "measure", "periods_ahead", "period_interval"},
                "trend_extrapolation", "month", "revenue", 6, "week")
TrendDefaults ==
    WhatIfInput({"technique", "time_field", "measure"},
                "trend_extrapolation", "month", "revenue", 0, "")
TrendBadInterval ==
    WhatIfInput({"technique", "time_field", "measure", "period_interval"},
                "trend_extrapolation", "month", "revenue", 0, "decade")
TrendTooMany ==
    WhatIfInput({"technique", "time_field", "measure", "periods_ahead"},
                "trend_extrapolation", "month", "revenue", _MAX_PERIODS + 1, "")
TrendZero ==
    WhatIfInput({"technique", "time_field", "measure", "periods_ahead", "period_interval"},
                "trend_extrapolation", "month", "revenue", 0, "month")
OtherTechnique ==
    WhatIfInput({"technique"}, "scenario", "", "", 0, "")

Plans ==
    { Plan("r1", PlainSql("select", FALSE), GoodChart, NoWhatIf),
      Plan("r2", PlainSql("select_sub", TRUE), EmptySpec, OtherTechnique),
      Plan("r3", PlainSql("select", FALSE), ThemedChart, TrendOk),
      Plan("r4", PlainSql("select", TRUE), BadChart, TrendBadInterval),
      Plan("r5", PlainSql("select", FALSE), GoodChart, TrendTooMany),
      Plan("r6", PlainSql("cte_delete", FALSE), GoodChart, TrendZero),
      Plan("r7", PlainSql("syntax_error", FALSE), BadChart, TrendDefaults) }

PlannerResponses ==
    {<<>>, <<TextBlock>>} \cup {<<TextBlock, ToolUse("plan_query", p)>> : p \in Plans}

Ref(ref_id) == [ref_id |-> ref_id, text |-> "substring", source |-> "revenue column"]

NarratorResponses ==
    { <<TextBlock>>,
      <<ToolUse("narrate_results",
                Narration({"narrative", "data_references"}, "insight", <<Ref("r1")>>))>>,
      <<ToolUse("narrate_results", Narration({"data_references"}, "", <<Ref("r1")>>))>> }

DbErrors == {Db("connect_fail", 0, "", ""), Db("pg_error", 0, "", "column_missing")}

DbRows ==
    {Db("rows", 0, "", ""), Db("rows", 1, "time_measure", ""),
     Db("rows", MaxResultRows + 1, "cat_measure", "")}

DbOutcomes == DbErrors \cup DbRows

(* schema_ctx.enriched *)
Enriched ==
    << <<[name |-> "name", role |-> "categorical"],
         [name |-> "revenue", role |-> "measure_candidate"]>>,
       <<[name |-> "month", role |-> "time_dimension"],
         [name |-> "name", role |-> "key"]>> >>

OriginalCells ==
    { Cell("cell_0001", "t0", "Top customers?", CellContext("", "", 1),
           CellSQL(PlainSql("select", FALSE), FALSE), EmptyCellResult,
           CellChart(GoodChart, FALSE), [text |-> "old", data_references |-> <<>>],
           CellMetadata(<<"thinking", "executing", "narrating">>, 1,
                        "original reasoning", None)) }

EditedSqls == {PlainSql("select_sub", TRUE), PlainSql("drop", FALSE),
               PlainSql("two_selects", FALSE)}

----------------------------------------------------------------------------
(* State machine.  One behaviour is one invocation of ask_question or of   *)
(* run_edited_sql; an action runs the generator from one yield to the      *)
(* next.  pc = "raised" is the generator ended by an exception.            *)

NoInput == [question |-> "", parent_cell_id |-> "", sql |-> PlainSql("", FALSE),
            original_cell |-> None]

EmptyLog == [planner |-> <<>>, narrator |-> <<>>, exec |-> <<>>, valid |-> <<>>,
             chart_validations |-> 0]

NoCall == [fn |-> "none", at |-> "idle", n |-> 0, db |-> Db("", 0, "", ""),
           text |-> PlainSql("", FALSE), conn |-> 0, closes |-> 0, args |-> <<>>]

Init ==
    /\ pc = "idle"
    /\ fn = "none"
    /\ inp = NoInput
    /\ events = <<>>
    /\ messages = <<>>
    /\ tool_input = None
    /\ sql = PlainSql("", FALSE)
    /\ chart_spec = EmptySpec
    /\ attempt = 0
    /\ retry_count = 0
    /\ agent_steps = <<>>
    /\ cell_result = None
    /\ whatif = NoWhatIfState
    /\ auto_detected = FALSE
    /\ artifact = None
    /\ log = EmptyLog
    /\ call = NoCall
    /\ ret = None
    /\ conns = <<>>
    /\ delivered = <<>>
    /\ store = <<CHOOSE cell \in OriginalCells : TRUE>>
    /\ fault = ""

Questions == {"top customers?"}
ParentIds == {"cell_0001"}

(* lines 86-115 *)
AskStart(question, parent_cell_id, has_key) ==
    /\ pc = "idle"
    /\ UNCHANGED <<component_vars, server_vars>>
    /\ fn' = "ask"
    /\ inp' = [NoInput EXCEPT !.question = question, !.parent_cell_id = parent_cell_id]
    /\ IF ~has_key
       THEN /\ events' = <<error_event("Missing API key", "CONFIG_ERROR")>>
            /\ pc' = "done"
            /\ UNCHANGED <<messages, agent_steps>>
       ELSE /\ events' = <<stage_event("thinking")>>
            /\ messages' = <<QuestionMessage(question)>>
            /\ agent_steps' = <<"thinking">>
            /\ pc' = "plan"
    /\ UNCHANGED <<tool_input, sql, chart_spec, attempt, retry_count, cell_result,
                   whatif, auto_detected, artifact, log>>

(* lines 143-172 and 189-218: a failed attempt is corrected or ends the ask *)
Correct(feedback, failure, l) ==
    /\ log' = l
    /\ IF AttemptsRemain(attempt)
       THEN /\ events' = Append(events, stage_event("correcting"))
            /\ agent_steps' = Append(agent_steps, "correcting")
            /\ retry_count' = NextRetryCount(retry_count)
            /\ messages' = messages \o feedback
            /\ attempt' = attempt + 1
            /\ pc' = "plan"
       ELSE /\ events' = Append(events, error_event(failure, "AGENT_ERROR"))
            /\ pc' = "done"
            /\ UNCHANGED <<agent_steps, retry_count, messages, attempt>>

(* lines 117-176: one planner call, up to the next yield *)
PlanCall(response) ==
    /\ pc = "plan"
    /\ UNCHANGED <<component_vars, server_vars>>
    /\ LET input == extract_tool_input(response, "plan_query")
           called == [log EXCEPT !.planner = Append(@, [attempt |-> attempt, seen |-> messages,
                                                        response |-> response])]
       IN  IF input = None
           THEN /\ events' = Append(events, error_event("LLM did not return a plan_query tool call", "AGENT_ERROR"))
                /\ pc' = "done"
                /\ log' = called
                /\ UNCHANGED <<tool_input, sql, chart_spec, messages, agent_steps,
                               retry_count, attempt>>
           ELSE LET plan == input[1]
                    validation == validate_sql(plan.sql)
                    l == [called EXCEPT !.valid = Append(@, [sql |-> plan.sql, attempt |-> attempt,
                                                             ok |-> ok(validation)])]
                IN  /\ tool_input' = input
                    /\ sql' = plan.sql
                    /\ chart_spec' = plan.chart_spec
                    /\ IF ValidationFailed(validation)
                       THEN Correct(ValidationFeedback(attempt, plan, validation),
                                    "SQL validation failed after retries", l)
                       ELSE /\ events' = Append(events, stage_event("executing"))
                            /\ agent_steps' = Append(agent_steps, "executing")
                            /\ pc' = "execute"
                            /\ log' = l
                            /\ UNCHANGED <<messages, retry_count, attempt>>
    /\ UNCHANGED <<fn, inp, cell_result, whatif, auto_detected, artifact>>

(* lines 283-306: resolve the chart, then yield "narrating" *)
ToNarrating(wi, result, state, l) ==
    LET chart == ResolveChart(state.is_whatif, wi, chart_spec, result, Enriched)
    IN  /\ chart_spec' = chart.spec
        /\ auto_detected' = chart.auto_detected
        /\ log' = IF chart.consulted
                  THEN [l EXCEPT !.chart_validations = @ + 1] ELSE l
        /\ events' = Append(events, stage_event("narrating"))
        /\ agent_steps' = Append(agent_steps, "narrating")
        /\ pc' = "narrate"

(* lines 178-235: the baseline execution, up to the next yield *)
Execute(db) ==
    /\ pc = "execute"
    /\ UNCHANGED <<component_vars, server_vars>>
    /\ LET exec_result == execute_query(db, sql, MaxResultRows)
           l == [log EXCEPT !.exec = Append(@, [sql |-> sql, attempt |-> attempt,
                                                phase |-> "baseline",
                                                ok |-> ok(exec_result),
                                                data |-> exec_result.data])]
           wi == whatif_input(tool_input)
       IN  IF ExecutionFailed(exec_result)
           THEN /\ Correct(ExecutionFeedback(attempt, tool_input[1], exec_result),
                           "SQL execution failed after retries", l)
                /\ UNCHANGED <<cell_result, chart_spec, auto_detected>>
           ELSE IF exec_result.data = None
           THEN /\ events' = Append(events, error_event("No result data from execution", "AGENT_ERROR"))
                /\ pc' = "done"
                /\ log' = l
                /\ UNCHANGED <<cell_result, chart_spec, auto_detected, agent_steps,
                               retry_count, messages, attempt>>
           ELSE /\ cell_result' = exec_result.data
                /\ UNCHANGED <<retry_count, messages, attempt>>
                /\ IF WhatIfRequested(wi)
                   THEN /\ events' = Append(events, stage_event("projecting"))
                        /\ agent_steps' = Append(agent_steps, "projecting")
                        /\ pc' = "project"
                        /\ log' = l
                        /\ UNCHANGED <<chart_spec, auto_detected>>
                   ELSE ToNarrating(wi, exec_result.data[1], NoWhatIfState, l)
    /\ UNCHANGED <<fn, inp, tool_input, sql, whatif, artifact>>

(* lines 237-306: the what-if branch, up to the next yield *)
Project(db) ==
    /\ pc = "project"
    /\ UNCHANGED <<component_vars, server_vars>>
    /\ LET wi == whatif_input(tool_input)
           periods_ahead == Get(wi, "periods_ahead", 3)
           trend_params == TrendParams(Get(wi, "time_field", ""), Get(wi, "measure", ""),
                                       periods_ahead, Get(wi, "period_interval", "month"))
           trend_result == build_trend_sql(sql, trend_params)
           built == ok(trend_result) /\ trend_result.data # None
           trend_sql == trend_result.data[1].sql
           trend_exec == execute_query(db, trend_sql, MaxResultRows)
           l == IF built
                THEN [log EXCEPT !.exec = Append(@, [sql |-> trend_sql, attempt |-> attempt,
                                                     phase |-> "trend",
                                                     ok |-> ok(trend_exec),
                                                     data |-> trend_exec.data])]
                ELSE log
           succeeded == built /\ TrendExecSucceeded(trend_exec)
           caveats == generate_caveats("trend_extrapolation", trend_params.periods_ahead,
                                       trend_params.period_interval)
           state == IF succeeded
                    THEN [is_whatif |-> TRUE, caveats |-> caveats,
                          meta |-> Some(WhatIfMetadata(trend_params, caveats))]
                    ELSE NoWhatIfState
           result == IF succeeded THEN trend_exec.data ELSE cell_result
       IN  IF TrendParamsRaises(periods_ahead)
           THEN /\ pc' = "raised"
                /\ UNCHANGED <<events, agent_steps, sql, cell_result, whatif, chart_spec,
                               auto_detected, log>>
           ELSE /\ sql' = IF succeeded THEN trend_sql ELSE sql
                /\ cell_result' = result
                /\ whatif' = state
                /\ ToNarrating(wi, result[1], state, l)
    /\ UNCHANGED <<fn, inp, messages, tool_input, attempt, retry_count, artifact>>

(* lines 308-338: the narrator call and the cell *)
Narrate(response) ==
    /\ pc = "narrate"
    /\ UNCHANGED <<component_vars, server_vars>>
    /\ LET narrative == NarrativeOf(response)
           caveats == IF whatif.is_whatif THEN Some(whatif.caveats) ELSE None
       IN  /\ log' = [log EXCEPT !.narrator = Append(@, [caveats |-> caveats, sql |-> sql,
                                                            prompt |-> build_narrate_prompt(inp.question, sql, cell_result[1], caveats),
                                                            response |-> response])]
           /\ artifact' = Some(Cell("new_id", "now", inp.question,
                                    CellContext(inp.parent_cell_id, inp.parent_cell_id, 0),
                                    CellSQL(sql, FALSE), cell_result[1],
                                    CellChart(chart_spec, auto_detected), narrative,
                                    CellMetadata(agent_steps, retry_count,
                                                 tool_input[1].reasoning, whatif.meta)))
    /\ events' = Append(events, cell_event)
    /\ pc' = "done"
    /\ UNCHANGED <<fn, inp, messages, tool_input, sql, chart_spec, attempt, retry_count,
                   agent_steps, cell_result, whatif, auto_detected>>

(* run_edited_sql, lines 351-357 *)
RunStart(text, original_cell, has_key) ==
    /\ pc = "idle"
    /\ UNCHANGED <<component_vars, server_vars>>
    /\ fn' = "run"
    /\ inp' = [NoInput EXCEPT !.sql = text, !.original_cell = Some(original_cell)]
    /\ sql' = text
    /\ IF ~has_key
       THEN /\ events' = <<error_event("Missing API key", "CONFIG_ERROR")>>
            /\ pc' = "done"
       ELSE /\ events' = <<stage_event("thinking")>>
            /\ pc' = "run_validate"
    /\ UNCHANGED <<messages, tool_input, chart_spec, attempt, retry_count, agent_steps,
                   cell_result, whatif, auto_detected, artifact, log>>

(* lines 358-365 *)
RunValidate ==
    /\ pc = "run_validate"
    /\ UNCHANGED <<component_vars, server_vars>>
    /\ LET validation == validate_sql(sql)
       IN  /\ log' = [log EXCEPT !.valid = Append(@, [sql |-> sql, attempt |-> 0,
                                                      ok |-> ok(validation)])]
           /\ IF ValidationFailed(validation)
              THEN /\ events' = Append(events, error_event("SQL validation failed", "SQL_VALIDATION_ERROR"))
                   /\ pc' = "done"
              ELSE /\ events' = Append(events, stage_event("executing"))
                   /\ pc' = "run_execute"
    /\ UNCHANGED <<fn, inp, messages, tool_input, sql, chart_spec, attempt, retry_count,
                   agent_steps, cell_result, whatif, auto_detected, artifact>>

(* lines 366-392 *)
RunExecute(db) ==
    /\ pc = "run_execute"
    /\ UNCHANGED <<component_vars, server_vars>>
    /\ LET exec_result == execute_query(db, sql, MaxResultRows)
       IN  /\ log' = [log EXCEPT !.exec = Append(@, [sql |-> sql, attempt |-> 0,
                                                     phase |-> "edited",
                                                     ok |-> ok(exec_result),
                                                     data |-> exec_result.data])]
           /\ IF ExecutionFailed(exec_result)
              THEN /\ events' = Append(events, error_event("SQL execution error", "SQL_ERROR"))
                   /\ pc' = "done"
                   /\ UNCHANGED <<cell_result, chart_spec>>
              ELSE IF exec_result.data = None
              THEN /\ events' = Append(events, error_event("No result data from execution", "AGENT_ERROR"))
                   /\ pc' = "done"
                   /\ UNCHANGED <<cell_result, chart_spec>>
              ELSE /\ cell_result' = exec_result.data
                   /\ chart_spec' = auto_detect_chart(exec_result.data[1].columns,
                                                      exec_result.data[1].column_types, Enriched)
                   /\ events' = Append(events, stage_event("narrating"))
                   /\ pc' = "run_narrate"
    /\ UNCHANGED <<fn, inp, messages, tool_input, sql, attempt, retry_count, agent_steps,
                   whatif, auto_detected, artifact>>

(* lines 393-414 *)
RunNarrate(response) ==
    /\ pc = "run_narrate"
    /\ UNCHANGED <<component_vars, server_vars>>
    /\ LET narrative == NarrativeOf(response)
           original_cell == inp.original_cell[1]
       IN  /\ log' = [log EXCEPT !.narrator = Append(@, [caveats |-> None, sql |-> sql,
                                                            prompt |-> build_narrate_prompt(original_cell.question, sql, cell_result[1], None),
                                                            response |-> response])]
           /\ artifact' = Some(Cell(original_cell.id, original_cell.created_at,
                                    original_cell.question, original_cell.context,
                                    CellSQL(sql, TRUE), cell_result[1],
                                    CellChart(chart_spec, TRUE), narrative,
                                    CellMetadata(<<"executing", "narrating">>, 0,
                                                 original_cell.metadata.reasoning, None)))
    /\ events' = Append(events, cell_event)
    /\ pc' = "done"
    /\ UNCHANGED <<fn, inp, messages, tool_input, sql, chart_spec, attempt, retry_count,
                   agent_steps, cell_result, whatif, auto_detected>>

Next ==
    \/ \E q \in Questions, parent \in ParentIds, has_key \in BOOLEAN : AskStart(q, parent, has_key)
    \/ \E response \in PlannerResponses : PlanCall(response)
    \/ \E db \in DbOutcomes : Execute(db)
    \/ \E db \in DbOutcomes : Project(db)
    \/ \E response \in NarratorResponses : Narrate(response)
    \/ \E text \in EditedSqls, cell \in OriginalCells, has_key \in BOOLEAN :
          RunStart(text, cell, has_key)
    \/ RunValidate
    \/ \E db \in DbOutcomes : RunExecute(db)
    \/ \E response \in NarratorResponses : RunNarrate(response)

Spec == Init /\ [][Next]_vars

----------------------------------------------------------------------------
(* The components called on their own: validate_sql as one step, and      *)
(* execute_query statement by statement (executor.py lines 25-95), a few    *)
(* calls one after the other.  A connection is a record                     *)
(*   call        the execute_query call that opened it                      *)
(*   state       "open" | "closed"                                          *)
(*   closes      the number of conn.close() calls made on it                *)
(*   statements  what was run on it: the issuing call, the statement and    *)
(*               whether the connection was open at that time               *)

MaxCalls == 2

ValidateInputs ==
    {PlainSql(src, padded) : src \in SqlSources, padded \in BOOLEAN}

ExecDbs ==
    {Db("connect_fail", 0, "", ""), Db("timeout", 0, "", ""),
     Db("pg_error", 0, "", "column_missing"), Db("pg_error", 0, "", "other"),
     Db("unexpected", 0, "", "")}
    \cup {Db("rows", n, "cat_measure", "") : n \in 0..(MaxResultRows + 1)}

ExecTexts == {PlainSql("select", FALSE)}

CallFree == call.at \in {"idle", "returned"} /\ call.n < MaxCalls

(* validate_sql, lines 46-80, as one step *)
ValidateCall(text) ==
    /\ CallFree
    /\ call' = [NoCall EXCEPT !.fn = "validate_sql", !.at = "returned", !.n = call.n + 1,
                              !.text = text]
    /\ ret' = Some(validate_sql(text))
    /\ UNCHANGED <<conns, generator_vars, server_vars>>

(* execute_query is called, lines 13-25 *)
ExecCall(db, text) ==
    /\ CallFree
    /\ call' = [NoCall EXCEPT !.fn = "execute_query", !.at = "connect", !.n = call.n + 1,
                              !.db = db, !.text = text]
    /\ ret' = None
    /\ UNCHANGED <<conns, generator_vars, server_vars>>

(* line 28: asyncpg.connect opens a connection of its own for this call *)
Connect(cs, n) ==
    Append(cs, [call |-> n, state |-> "open", closes |-> 0, statements |-> <<>>])

Ran(cs, c, n, statement) ==
    [cs EXCEPT ![c].statements = Append(@, [call |-> n, statement |-> statement,
                                            open |-> cs[c].state = "open"])]

(* mutant of AfterTry: only the path that builds a result closes *)
AfterTryOnSuccessOnly(outcome) == IF outcome = "rows" THEN "close" ELSE "return"

(* lines 92-93: the finally block follows the try body on every outcome, *)
(* the early return of the empty result included                           *)
AfterTry(outcome) == "close"

(* lines 27-31 *)
ExecConnect ==
    /\ call.fn = "execute_query" /\ call.at = "connect"
    /\ IF call.db.kind = "connect_fail"
       THEN /\ call' = [call EXCEPT !.at = "returned"]
            /\ ret' = Some(execute_query(call.db, call.text, MaxResultRows))
            /\ UNCHANGED conns
       ELSE /\ conns' = Connect(conns, call.n)
            /\ call' = [call EXCEPT !.at = "set_timeout", !.conn = Len(conns) + 1]
            /\ UNCHANGED ret
    /\ UNCHANGED <<generator_vars, server_vars>>

(* line 34: SET statement_timeout; a failing database may fail here already *)
ExecSetTimeout(early) ==
    /\ call.fn = "execute_query" /\ call.at = "set_timeout"
    /\ conns' = Ran(conns, call.conn, call.n, "set_timeout")
    /\ call' = [call EXCEPT !.at = IF early /\ call.db.kind \in {"pg_error", "unexpected"}
                                  THEN AfterTry(call.db.kind) ELSE "fetch"]
    /\ UNCHANGED <<ret, generator_vars, server_vars>>

(* lines 36-91: conn.fetch and what the try body and its handlers make of it *)
ExecFetch ==
    /\ call.fn = "execute_query" /\ call.at = "fetch"
    /\ conns' = Ran(conns, call.conn, call.n, "fetch")
    /\ call' = [call EXCEPT !.at = AfterTry(IF call.db.kind = "rows" /\ call.db.n = 0
                                            THEN "empty" ELSE call.db.kind)]
    /\ UNCHANGED <<ret, generator_vars, server_vars>>

(* lines 92-93: finally: await conn.close() *)
ExecClose ==
    /\ call.fn = "execute_query" /\ call.at = "close"
    /\ conns' = [conns EXCEPT ![call.conn].state = "closed", ![call.conn].closes = @ + 1]
    /\ call' = [call EXCEPT !.at = "return", !.closes = @ + 1]
    /\ UNCHANGED <<ret, generator_vars, server_vars>>

(* line 44 or line 95: return result *)
ExecReturn ==
    /\ call.fn = "execute_query" /\ call.at = "return"
    /\ ret' = Some(execute_query(call.db, call.text, MaxResultRows))
    /\ call' = [call EXCEPT !.at = "returned"]
    /\ UNCHANGED <<conns, generator_vars, server_vars>>

NextComponents ==
    \/ \E text \in ValidateInputs : ValidateCall(text)
    \/ \E db \in ExecDbs, text \in ExecTexts : ExecCall(db, text)
    \/ ExecConnect
    \/ \E early \in BOOLEAN : ExecSetTimeout(early)
    \/ ExecFetch
    \/ ExecClose
    \/ ExecReturn

SpecComponents == Init /\ [][NextComponents]_vars

----------------------------------------------------------------------------
(* The pure functions, each called as one step.  call.args holds the        *)
(* arguments of the call, ret its result; call.at = "raised" is a call      *)
(* ended by an exception.                                                   *)

(* a behaviour is one call *)
NotCalled == call.at = "idle"

TrendPeriods == {0, 1, 3, _MAX_PERIODS, _MAX_PERIODS + 1}
TrendIntervals == _VALID_INTERVALS \cup {"decade", ""}
TrendBaselines == {PlainSql("select", FALSE), PlainSql("select_sub", TRUE)}

(* agent.py 237-243: TrendParams(...) is constructed, then build_trend_sql  *)
(* is called with it                                                        *)
TrendCall(baseline_sql, periods_ahead, period_interval) ==
    /\ NotCalled
    /\ call' = [NoCall EXCEPT !.fn = "build_trend_sql", !.n = 1,
                              !.at = IF TrendParamsRaises(periods_ahead) THEN "raised"
                                     ELSE "returned",
                              !.args = <<baseline_sql, periods_ahead, period_interval>>]
    /\ ret' = IF TrendParamsRaises(periods_ahead) THEN None
              ELSE Some(build_trend_sql(baseline_sql,
                          TrendParams("month", "revenue", periods_ahead, period_interval)))
    /\ UNCHANGED <<conns, generator_vars, server_vars>>

(* What the query of trend.py 65-110 returns on the rows of the baseline.   *)
(* A row is its time value (None is NULL; times are counted in units of the *)
(* interval) and its period_type; the measure column is left out.           *)
TrendRow(time, period_type) == [time |-> time, period_type |-> period_type]

(* lines 83-85: MAX over the non-NULL times; an aggregate, so always one row *)
MaxTime(rows) ==
    LET times == {rows[i].time[1] : i \in {j \in DOMAIN rows : rows[j].time # None}}
    IN  IF times = {} THEN None ELSE Some(CHOOSE t \in times : \A u \in times : u <= t)

(* lines 76-82 *)
Actuals(rows) == [i \in DOMAIN rows |-> TrendRow(rows[i].time, "actual")]

(* lines 86-94: WHERE lp.max_time IS NOT NULL *)
Bridge(rows) ==
    IF MaxTime(rows) = None THEN <<>> ELSE <<TrendRow(MaxTime(rows), "projected")>>

(* lines 95-103: generate_series(1, periods) CROSS JOIN last_period; NULL   *)
(* plus an interval is NULL                                                 *)
FuturePeriods(rows, periods) ==
    [k \in 1..periods |->
        TrendRow(IF MaxTime(rows) = None THEN None ELSE Some(MaxTime(rows)[1] + k), "projected")]

(* ORDER BY ... ASC puts NULL last *)
TimeBefore(a, b) == a # None /\ (b = None \/ a[1] < b[1])

(* the place of row i of rows once the rows are sorted by time *)
PlaceOf(rows, i) ==
    1 + Cardinality({j \in DOMAIN rows :
                       \/ TimeBefore(rows[j].time, rows[i].time)
                       \/ (~TimeBefore(rows[i].time, rows[j].time) /\ j < i)})

(* line 109 *)
OrderByTime(rows) ==
    [p \in DOMAIN rows |-> rows[CHOOSE i \in DOMAIN rows : PlaceOf(rows, i) = p]]

(* lines 104-109 *)
RunTrendSql(text, rows) ==
    OrderByTime(Actuals(rows) \o Bridge(rows) \o FuturePeriods(rows, text.periods))

MaxBaselineRows == 2
BaselineTimes == {None, Some(1), Some(2)}
BaselineTables ==
    UNION {[1..n -> {TrendRow(t, "") : t \in BaselineTimes}] : n \in 0..MaxBaselineRows}
QueryPeriods == {1, 3}

(* build_trend_sql with valid parameters, and its query run on a baseline *)
TrendQueryCall(periods_ahead, period_interval, rows) ==
    /\ NotCalled
    /\ LET built == build_trend_sql(PlainSql("select", FALSE),
                        TrendParams("month", "revenue", periods_ahead, period_interval))
       IN  /\ call' = [NoCall EXCEPT !.fn = "trend_query", !.at = "returned", !.n = 1,
                                     !.text = built.data[1].sql,
                                     !.args = <<rows, periods_ahead, period_interval>>]
           /\ ret' = Some(RunTrendSql(built.data[1].sql, rows))
    /\ UNCHANGED <<conns, generator_vars, server_vars>>

ChartMarks ==
    {NoMark, Mark("str", "bar", ""), Mark("str", "pie", ""), Mark("dict", "line", ""),
     Mark("dict", "", ""), Mark("other", "", "")}

ChartEncodings ==
    {NoEncoding, BadEncoding, Encoding(<<>>),
     Encoding([x |-> Chan("name", "nominal", ""), y |-> Chan("revenue", "quantitative", "")]),
     Encoding([x |-> Chan("nonexistent", "", ""), y |-> Chan("revenue", "bogus", "")]),
     Encoding([x |-> ScalarChan, color |-> Chan("", "bogus", "")])}

LayerUnits ==
    {NonObjectLayer,
     Unit(Mark("str", "line", ""), Encoding([x |-> Chan("name", "nominal", "")]), ""),
     Unit(Mark("str", "pie", ""), NoEncoding, ""),
     Unit(NoMark, Encoding([x |-> Chan("nonexistent", "bogus", "")]), "")}

MaxLayers == 2

ChartSpecs ==
    {SingleSpec(m, e, "", "", "") : m \in ChartMarks, e \in ChartEncodings}
    \cup {ChartSpec(m, NoEncoding, Layers(units), "", "", "", NoConfig, "") :
             m \in {NoMark, Mark("str", "pie", "")},
             units \in UNION {[1..n -> LayerUnits] : n \in 0..MaxLayers}}

ChartColumns == {<<>>, <<"name", "revenue">>}

(* validate_chart_spec, viz/validator.py 13-45, as one step *)
ChartValidateCall(spec, columns) ==
    /\ NotCalled
    /\ call' = [NoCall EXCEPT !.fn = "validate_chart_spec", !.at = "returned",
                              !.n = 1, !.args = <<spec, columns>>]
    /\ ret' = Some(validate_chart_spec(spec, columns))
    /\ UNCHANGED <<conns, generator_vars, server_vars>>

(* result columns with their Python type names; month, name and revenue   *)
(* are columns of the enriched schema, the others are classified by type    *)
ColumnPool ==
    {<<"month", "date">>, <<"day", "timestamp">>, <<"name", "str">>, <<"flag", "bool">>,
     <<"revenue", "float">>, <<"qty", "int">>, <<"blob", "bytes">>}

MaxColumns == 3

ColumnLists ==
    UNION {{cols \in [1..n -> ColumnPool] : \A i, j \in 1..n : i # j => cols[i] # cols[j]} :
             n \in 0..MaxColumns}

(* auto_detect_chart, viz/auto_detect.py 17-96, as one step *)
AutoDetectCall(cols) ==
    /\ NotCalled
    /\ LET columns      == [i \in DOMAIN cols |-> cols[i][1]]
           column_types == [i \in DOMAIN cols |-> cols[i][2]]
       IN  /\ call' = [NoCall EXCEPT !.fn = "auto_detect_chart", !.at = "returned",
                                     !.n = 1, !.args = <<columns, column_types>>]
           /\ ret' = Some(auto_detect_chart(columns, column_types, Enriched))
    /\ UNCHANGED <<conns, generator_vars, server_vars>>

ThemeConfigs ==
    {NoConfig, Config(<<>>),
     Config([font |-> Scalar("Georgia")]),
     Config([axis |-> Object([gridColor |-> "#fff", ticks |-> "false"])]),
     Config([axis |-> Scalar("none"), custom |-> Scalar("kept")]),
     Config([font |-> Object([family |-> "Georgia"]), bar |-> Object(<<>>)]),
     Config([font |-> Scalar("Georgia"),
             axis |-> Object([gridColor |-> "#fff", ticks |-> "false"]),
             custom |-> Scalar("kept")])}

ThemeSchemas == {"", "https://vega.github.io/schema/vega-lite/v4.json"}

ThemeSpecs ==
    {[base EXCEPT !.config = config, !.schema = schema] :
        base \in {EmptySpec, line_spec("month", "revenue"),
                  ChartSpec(NoMark, NoEncoding, Layers(<<Unit(Mark("str", "line", ""), NoEncoding, "")>>),
                            "", "container", "", NoConfig, "")},
        config \in ThemeConfigs, schema \in ThemeSchemas}

(* dict(d), theme.py 74 and 76: a new dict holding d's items *)
DictCopy(d) == [alias |-> FALSE, items |-> d]

(* what an assignment through the name bound to copy leaves in the argument *)
SeenThrough(copy, argument, written) == IF copy.alias THEN written ELSE argument

(* apply_theme, viz/theme.py 72-90, as one step; call.args holds the        *)
(* argument as it was before and as it is after the call                    *)
ThemeCall(spec) ==
    /\ NotCalled
    /\ LET themed          == DictCopy(spec)
           existing_config == DictCopy(spec.config)
           returned        == apply_theme(spec)
           after == SeenThrough(themed,
                                [spec EXCEPT !.config = SeenThrough(existing_config, @, returned.config)],
                                returned)
       IN  /\ call' = [NoCall EXCEPT !.fn = "apply_theme", !.at = "returned", !.n = 1,
                                     !.args = <<spec, after>>]
           /\ ret' = Some(returned)
    /\ UNCHANGED <<conns, generator_vars, server_vars>>

NextFunctions ==
    \/ \E spec \in ThemeSpecs : ThemeCall(spec)
    \/ \E cols \in ColumnLists : AutoDetectCall(cols)
    \/ \E spec \in ChartSpecs, columns \in ChartColumns : ChartValidateCall(spec, columns)
    \/ \E b \in TrendBaselines, n \in TrendPeriods, i \in TrendIntervals : TrendCall(b, n, i)
    \/ \E n \in QueryPeriods, i \in {"month", "week"}, rows \in BaselineTables :
          TrendQueryCall(n, i, rows)

SpecFunctions == Init /\ [][NextFunctions]_vars

----------------------------------------------------------------------------
(* The stream the server delivers.  _event_stream pulls the generator one   *)
(* event at a time, persists an artifact before passing it on, and turns    *)
(* any exception, of the generator or of the store, into one STREAM_ERROR   *)
(* event.  fault names the collaborator that raised.                        *)

(* server.py 187, 224 *)
StreamError == error_event("Internal server error", "STREAM_ERROR")

(* the collaborators called between two yields, by the generator's position *)
FaultSites(who) ==
    CASE who = "planner"  -> {"plan"}
      [] who = "executor" -> {"execute", "project", "run_execute"}
      [] who = "theme"    -> {"execute", "project", "run_execute"}
      [] who = "narrator" -> {"narrate", "run_narrate"}

Collaborators == {"planner", "executor", "theme", "narrator"}

ServerPlannerResponses ==
    {<<TextBlock>>} \cup
    {<<TextBlock, ToolUse("plan_query", p)>> : p \in {q \in Plans : q.reasoning \in {"r1", "r3", "r5", "r6"}}}

ServerDbs == {Db("pg_error", 0, "", "column_missing"), Db("rows", 1, "time_measure", "")}

ServerNarratorResponses ==
    {<<ToolUse("narrate_results",
               Narration({"narrative", "data_references"}, "insight", <<Ref("r1")>>))>>}

(* the server has taken every event yielded so far and asks for the next *)
Pulled == Len(delivered) = Len(events) /\ fault = ""

(* a collaborator raises inside the generator, which ends there *)
Raises(who) ==
    /\ Pulled
    /\ pc \in FaultSites(who)
    /\ pc' = "raised"
    /\ fault' = who
    /\ UNCHANGED <<fn, inp, events, messages, tool_input, sql, chart_spec, attempt, retry_count,
                   agent_steps, cell_result, whatif, auto_detected, artifact, log>>
    /\ UNCHANGED <<component_vars, delivered, store>>

(* notebook/store.py 35-40 *)
add_cell(cells, cell) ==
    Append(cells, [cell EXCEPT !.context.conversation_position = Len(cells) + 1])

(* notebook/store.py 42-49 *)
update_cell(cells, cell_id, cell) ==
    [i \in DOMAIN cells |-> IF cells[i].id = cell_id THEN cell ELSE cells[i]]

(* mutant of Caught: an exception leaves the stream as it is *)
NotCaught(raised, e) == e

(* server.py 175, 185-187: what the stream gets in place of the event *)
Caught(raised, e) == IF raised THEN StreamError ELSE e

(* server.py 176-187 and 213-224: one turn of the async for, or the except *)
(* clause once the generator has raised                                    *)
Deliver(persisted) ==
    /\ fault # "persistence"
    /\ IF Len(delivered) < Len(events)
       THEN LET e == events[Len(delivered) + 1]
            IN  IF e.event = "cell"
                THEN /\ delivered' = Append(delivered, Caught(~persisted, e))
                     /\ fault' = IF persisted THEN fault ELSE "persistence"
                     /\ store' = IF ~persisted THEN store
                                 ELSE IF fn = "ask" THEN add_cell(store, artifact[1])
                                 ELSE update_cell(store, inp.original_cell[1].id, artifact[1])
                ELSE /\ delivered' = Append(delivered, e)
                     /\ UNCHANGED <<fault, store>>
       ELSE /\ Len(delivered) = Len(events)
            /\ pc = "raised"
            /\ delivered' = Append(delivered, Caught(TRUE, StreamError))
            /\ UNCHANGED <<fault, store>>
    /\ UNCHANGED <<generator_vars, component_vars>>

NextServer ==
    \/ \E q \in Questions, parent \in ParentIds, has_key \in BOOLEAN :
          Pulled /\ AskStart(q, parent, has_key)
    \/ \E response \in ServerPlannerResponses : Pulled /\ PlanCall(response)
    \/ \E db \in ServerDbs : Pulled /\ Execute(db)
    \/ \E db \in ServerDbs : Pulled /\ Project(db)
    \/ \E response \in ServerNarratorResponses : Pulled /\ Narrate(response)
    \/ \E text \in EditedSqls, cell \in OriginalCells, has_key \in BOOLEAN :
          Pulled /\ RunStart(text, cell, has_key)
    \/ Pulled /\ RunValidate
    \/ \E db \in ServerDbs : Pulled /\ RunExecute(db)
    \/ \E response \in ServerNarratorResponses : Pulled /\ RunNarrate(response)
    \/ \E who \in Collaborators : Raises(who)
    \/ \E persisted \in BOOLEAN : Deliver(persisted)

SpecServer == Init /\ [][NextServer]_vars

DeliveredErrors == {i \in DOMAIN delivered : delivered[i].event = "error"}

Faulted == pc = "raised" \/ fault # ""

(* the except clause has run *)
FaultHandled == fault = "persistence" \/ Len(delivered) > Len(events)

----------------------------------------------------------------------------
(* The notebook store on its own: store is notebook.cells *)

(* notebook/store.py 51-59: the first cell of that id is removed *)
delete_cell(cells, cell_id) ==
    LET found == {i \in DOMAIN cells : cells[i].id = cell_id}
    IN  IF found = {} THEN cells
        ELSE LET first == CHOOSE i \in found : \A j \in found : i <= j
             IN  [k \in 1..(Len(cells) - 1) |-> IF k < first THEN cells[k] ELSE cells[k + 1]]

MaxCells == 3
CellIds == {"cell_0001", "cell_0002", "cell_0003"}

(* a cell as ask hands it over: Cell's default context, position 0 *)
NewCell(id) ==
    [(CHOOSE cell \in OriginalCells : TRUE) EXCEPT !.id = id, !.context.conversation_position = 0]

AddCell(id) ==
    /\ Len(store) < MaxCells
    /\ \A i \in DOMAIN store : store[i].id # id
    /\ store' = add_cell(store, NewCell(id))
    /\ UNCHANGED <<generator_vars, component_vars, delivered, fault>>

(* run_sql hands over the re-run cell, which carries the context of the     *)
(* cell it replaces (agent.py 398-412)                                      *)
UpdateCell(id, text) ==
    /\ LET found    == {i \in DOMAIN store : store[i].id = id}
           original == IF found = {} THEN NewCell(id) ELSE store[CHOOSE i \in found : TRUE]
       IN  store' = update_cell(store, id, [original EXCEPT !.narrative.text = text])
    /\ UNCHANGED <<generator_vars, component_vars, delivered, fault>>

DeleteCell(id) ==
    /\ store' = delete_cell(store, id)
    /\ UNCHANGED <<generator_vars, component_vars, delivered, fault>>

NextStore ==
    \/ \E id \in CellIds : AddCell(id)
    \/ \E id \in CellIds, text \in {"old", "new"} : UpdateCell(id, text)
    \/ \E id \in CellIds : DeleteCell(id)

SpecStore == Init /\ [][NextStore]_vars

----------------------------------------------------------------------------
(* Reading the event stream and the call log *)

IsTerminal(e) == e.event \in {"cell", "error"}
IsStage(e) == e.event = "stage"
IsStageNamed(e, stage) == e.event = "stage" /\ e.stage = stage

Terminals == {i \in DOMAIN events : IsTerminal(events[i])}
StageCount(stage) == Cardinality({i \in DOMAIN events : IsStageNamed(events[i], stage)})
ErrorCount == Cardinality({i \in DOMAIN events : events[i].event = "error"})
CellCount == Cardinality({i \in DOMAIN events : events[i].event = "cell"})

Ended == pc \in {"done", "raised"}

ValidationFailures == {j \in DOMAIN log.valid : ~log.valid[j].ok}
ExecutionFailures ==
    {i \in DOMAIN log.exec : log.exec[i].phase = "baseline" /\ ~log.exec[i].ok}
Failures == Cardinality(ValidationFailures) + Cardinality(ExecutionFailures)

----------------------------------------------------------------------------
(* C1: an invocation of ask_question or run_edited_sql that has ended has  *)
(* yielded exactly one terminal event (cell or error), and in every state   *)
(* a terminal event is the last event yielded: nothing follows it.          *)
C1_OneTerminalEventLast ==
    /\ \A i \in Terminals : i = Len(events)
    /\ Ended => Cardinality(Terminals) = 1

(* C2: every executor call on planner-supplied or user-supplied SQL was    *)
(* preceded, in the same attempt, by a validate_sql call that accepted      *)
(* exactly that text; an attempt whose SQL was rejected makes no executor   *)
(* call.                                                                    *)
C2_ExecutedOnlyAfterValidated ==
    /\ \A i \in DOMAIN log.exec :
          log.exec[i].phase \in {"baseline", "edited"} =>
             /\ ok(validate_sql(log.exec[i].sql))
             /\ \E j \in DOMAIN log.valid :
                   /\ log.valid[j].sql = log.exec[i].sql
                   /\ log.valid[j].attempt = log.exec[i].attempt
                   /\ log.valid[j].ok
    /\ \A j \in ValidationFailures :
          \A i \in DOMAIN log.exec : log.exec[i].attempt # log.valid[j].attempt

(* C2 witness: a second attempt's SQL was executed after the first         *)
(* attempt's SQL had been rejected and not executed                         *)
C2_Witness ==
    /\ fn = "ask"
    /\ \E j \in ValidationFailures : log.valid[j].attempt = 0
    /\ \E i \in DOMAIN log.exec : log.exec[i].attempt = 1 /\ log.exec[i].sql.padded

(* C3: when every planning attempt of an ask has failed (validation or     *)
(* execution), the ask has ended with exactly MAX_RETRIES correcting        *)
(* events, MAX_RETRIES + 1 planner calls, exactly one terminal error, no    *)
(* narrating stage and no artifact.                                         *)
C3_AllAttemptsFail ==
    (fn = "ask" /\ pc = "done" /\ log.planner # <<>> /\ Failures = Len(log.planner)) =>
        /\ StageCount("correcting") = MAX_RETRIES
        /\ Len(log.planner) = MAX_RETRIES + 1
        /\ ErrorCount = 1
        /\ events[Len(events)].event = "error"
        /\ StageCount("narrating") = 0
        /\ CellCount = 0
        /\ artifact = None

(* C3 witness: four failed attempts, of both kinds *)
C3_Witness ==
    /\ fn = "ask" /\ pc = "done"
    /\ Failures = Len(log.planner)
    /\ Len(log.planner) = MAX_RETRIES + 1
    /\ ValidationFailures # {} /\ ExecutionFailures # {}

(* C4: the retry budget is one counter for both failure kinds: the         *)
(* correcting events equal the failures of both kinds together, capped at   *)
(* MAX_RETRIES, and failure number MAX_RETRIES + 1, of whichever kind,      *)
(* ends the ask with a terminal error.                                      *)
C4_SharedRetryBudget ==
    fn = "ask" =>
        /\ StageCount("correcting") <= MAX_RETRIES
        /\ Failures <= MAX_RETRIES + 1
        /\ StageCount("correcting") = (IF Failures <= MAX_RETRIES THEN Failures ELSE MAX_RETRIES)
        /\ Failures = MAX_RETRIES + 1 =>
              /\ pc = "done"
              /\ events[Len(events)].event = "error"
              /\ ErrorCount = 1

(* C4 witness: the budget was used up by two failures of each kind, the    *)
(* last one an execution error                                              *)
C4_Witness ==
    /\ fn = "ask" /\ pc = "done"
    /\ Cardinality(ValidationFailures) = 2
    /\ Cardinality(ExecutionFailures) = 2
    /\ \E i \in ExecutionFailures : log.exec[i].attempt = MAX_RETRIES

----------------------------------------------------------------------------
(* Reading the order of the stages *)

Stage(i) == IF events[i].event = "stage" THEN events[i].stage ELSE events[i].event

(* the attempt a correcting event at position i closes: the number of     *)
(* correcting events before it                                              *)
AttemptClosedAt(i) ==
    Cardinality({k \in 1..(i - 1) : Stage(k) = "correcting"})

FailedAtExecution(n) ==
    \E k \in ExecutionFailures : log.exec[k].attempt = n

----------------------------------------------------------------------------
(* What the artifact of an ask is compared with *)

BaselineRuns == {i \in DOMAIN log.exec : log.exec[i].phase = "baseline" /\ log.exec[i].ok}
TrendRuns == {i \in DOMAIN log.exec : log.exec[i].phase = "trend"}
TrendSucceeded ==
    \E i \in TrendRuns : log.exec[i].ok /\ log.exec[i].data # None

IsBaseline(cell) ==
    /\ cell.metadata.whatif = None
    /\ \E i \in BaselineRuns :
          /\ cell.sql.query = log.exec[i].sql
          /\ Some(cell.result) = log.exec[i].data

PlannedWhatIf == tool_input[1].whatif

PlannedTrendParams ==
    TrendParams(Get(PlannedWhatIf, "time_field", ""), Get(PlannedWhatIf, "measure", ""),
                Get(PlannedWhatIf, "periods_ahead", 3),
                Get(PlannedWhatIf, "period_interval", "month"))

(* C7 as stated: an ask that entered the what-if branch and got no trend  *)
(* result, because the rewrite or the re-execution failed, ends with an     *)
(* artifact and no error event; the artifact holds the baseline query and   *)
(* result and no whatif metadata.                                           *)
C7_TrendFailureDegrades ==
    (fn = "ask" /\ Ended /\ StageCount("projecting") = 1 /\ ~TrendSucceeded) =>
        /\ artifact # None
        /\ ErrorCount = 0
        /\ Stage(Len(events)) = "cell"
        /\ IsBaseline(artifact[1])

NoNarrative(response) ==
    LET narrate_input == extract_tool_input(response, "narrate_results")
    IN  narrate_input = None \/ narrate_input[1].keys = {}

----------------------------------------------------------------------------
----------------------------------------------------------------------------
(* Reading the component calls *)

Returned(name) == call.fn = name /\ call.at = "returned" /\ ret # None

ConnsOf(n) == {c \in DOMAIN conns : conns[c].call = n}

(* C13: a connection opened by an execute_query call is closed exactly    *)
(* once, before that call returns, whatever the try body ran into (rows,    *)
(* empty result, timeout, SQL error, unexpected exception); a call whose    *)
(* connect failed opens nothing and calls close on nothing; every call      *)
(* opens its own connection, and a connection only ever runs statements of  *)
(* the call that opened it, while it is open.                               *)
C13_ConnectionClosedOnce ==
    /\ \A c \in DOMAIN conns :
          /\ conns[c].closes <= 1
          /\ conns[c].state = "closed" <=> conns[c].closes = 1
          /\ (conns[c].call < call.n \/ call.at \in {"return", "returned"}) =>
                conns[c].closes = 1
          /\ \A k \in DOMAIN conns[c].statements :
                /\ conns[c].statements[k].call = conns[c].call
                /\ conns[c].statements[k].open
          /\ Len(conns[c].statements) <= 2
    /\ \A n \in 1..call.n : Cardinality(ConnsOf(n)) <= 1
    /\ (call.fn = "execute_query" /\ call.at = "returned") =>
          IF call.db.kind = "connect_fail"
          THEN ConnsOf(call.n) = {} /\ call.closes = 0
          ELSE Cardinality(ConnsOf(call.n)) = 1 /\ call.closes = 1

(* C13 witness: two calls have returned, the first after an empty result  *)
(* and the second after a timeout, each with its own closed connection      *)
C13_Witness ==
    /\ call.fn = "execute_query" /\ call.at = "returned"
    /\ call.db.kind = "timeout"
    /\ Len(conns) = 2
    /\ conns[1].call = 1 /\ conns[2].call = 2
    /\ Len(conns[1].statements) = 2
    /\ conns[1].closes = 1 /\ conns[2].closes = 1

(* the deny list as the claim words it *)
DenyListed ==
    {"InsertStmt", "UpdateStmt", "DeleteStmt", "CreateStmt", "DropStmt", "AlterTableStmt",
     "TruncateStmt", "GrantStmt", "RevokeStmt", "CreateFunctionStmt", "CreateRoleStmt",
     "CopyStmt", "CreateSchemaStmt", "CreateTableAsStmt"}

Parsed == parse_sql(call.text)

OneSelect ==
    Parsed.parses /\ Len(Parsed.stmts) = 1 /\ Head(Parsed.stmts[1]) = "SelectStmt"

(* the places of the one statement's tree that hold a deny-listed node *)
DeniedPlaces == {k \in DOMAIN Parsed.stmts[1] : Parsed.stmts[1][k] \in DenyListed}

PlacesBefore(k) == Cardinality({j \in DeniedPlaces : j < k})

(* C16: for a text that is one top-level SELECT, validate_sql reports one *)
(* VALIDATION_ERROR for every deny-listed node of the tree, each naming its *)
(* node's kind, in visiting order, and nothing else; with at least one such *)
(* node the validation fails and returns no data.                           *)
C16_EveryForbiddenNodeReported ==
    (Returned("validate_sql") /\ OneSelect) =>
        LET diags == ret[1].diagnostics
        IN  /\ Len(diags) = Cardinality(DeniedPlaces)
            /\ \A k \in DeniedPlaces :
                  /\ diags[PlacesBefore(k) + 1].code = "VALIDATION_ERROR"
                  /\ diags[PlacesBefore(k) + 1].severity = "error"
                  /\ diags[PlacesBefore(k) + 1].detail = Parsed.stmts[1][k]
            /\ DeniedPlaces # {} => (~ok(ret[1]) /\ ret[1].data = None)

(* C16 witness: a SELECT whose CTEs hold two DELETEs got two errors *)
C16_Witness ==
    /\ Returned("validate_sql")
    /\ call.text.src = "cte_del_del"
    /\ Len(ret[1].diagnostics) = 2
    /\ ret[1].diagnostics[1] = ret[1].diagnostics[2]

(* C17: for a text that does not parse, validate_sql returns exactly one  *)
(* diagnostic, an error with code SQL_PARSE_ERROR, and no data.             *)
C17_ParseErrorOnly ==
    (Returned("validate_sql") /\ ~Parsed.parses) =>
        /\ Len(ret[1].diagnostics) = 1
        /\ ret[1].diagnostics[1].code = "SQL_PARSE_ERROR"
        /\ ret[1].diagnostics[1].severity = "error"
        /\ \A i \in DOMAIN ret[1].diagnostics : ret[1].diagnostics[i].code # "VALIDATION_ERROR"
        /\ ret[1].data = None

(* C17 witness: validate_sql has returned for a text with a syntax error *)
C17_Witness ==
    /\ Returned("validate_sql")
    /\ call.text.src = "syntax_error" /\ call.text.padded
    /\ ~ok(ret[1])

(* C18: validate_sql accepts exactly the texts that parse to one          *)
(* statement, a SELECT, with no deny-listed node in its tree; an accepted   *)
(* text is returned without its leading and trailing whitespace and with    *)
(* no diagnostics; a rejected text returns no data.                         *)
C18_ValidateSqlOkIff ==
    Returned("validate_sql") =>
        /\ ok(ret[1]) <=> (OneSelect /\ DeniedPlaces = {})
        /\ ok(ret[1]) =>
              /\ ret[1].data = Some([call.text EXCEPT !.padded = FALSE])
              /\ ret[1].diagnostics = <<>>
        /\ ~ok(ret[1]) => ret[1].data = None

(* C18 witness: a SELECT with a subquery, surrounded by whitespace, was   *)
(* accepted                                                                 *)
C18_Witness ==
    /\ Returned("validate_sql")
    /\ call.text.src = "select_sub" /\ call.text.padded
    /\ ok(ret[1])
    /\ ret[1].data # Some(call.text)

(* C19: in a successful outcome of execute_query with row cap max_rows,   *)
(* row_count is the number of rows in data and at most max_rows; truncated  *)
(* is set exactly when the fetch returned more than max_rows rows, and      *)
(* exactly when the outcome carries a RESULT_TRUNCATED warning.             *)
C19_TruncationInvariant ==
    (Returned("execute_query") /\ ok(ret[1]) /\ ret[1].data # None) =>
        LET outcome == ret[1].data[1]
        IN  /\ outcome.row_count = Len(outcome.data)
            /\ outcome.row_count <= MaxResultRows
            /\ outcome.row_count = (IF call.db.n > MaxResultRows THEN MaxResultRows
                                    ELSE call.db.n)
            /\ outcome.truncated <=> call.db.n > MaxResultRows
            /\ outcome.truncated <=>
                  \E i \in DOMAIN outcome.diagnostics :
                     /\ outcome.diagnostics[i].code = "RESULT_TRUNCATED"
                     /\ outcome.diagnostics[i].severity = "warning"

(* C19 witness: a fetch of more rows than the cap has returned, truncated *)
C19_Witness ==
    /\ Returned("execute_query")
    /\ call.db.n = MaxResultRows + 1
    /\ ret[1].data # None
    /\ ret[1].data[1].truncated
    /\ ret[1].data[1].row_count = MaxResultRows

----------------------------------------------------------------------------
(* Executor calls of one ask *)

BaselineCalls == {i \in DOMAIN log.exec : log.exec[i].phase = "baseline"}

EmptyRuns == {i \in BaselineRuns : log.exec[i].data # None /\ log.exec[i].data[1].row_count = 0}

C20_EmptyResultIsSuccess ==
    (fn = "ask" /\ EmptyRuns # {}) =>
        \A i \in EmptyRuns :
            /\ log.exec[i].ok
            /\ retry_count = log.exec[i].attempt
            /\ StageCount("correcting") = log.exec[i].attempt
            /\ Len(log.planner) = log.exec[i].attempt + 1
            /\ Ended =>
                  /\ StageCount("narrating") = 1
                  /\ CellCount = 1
                  /\ ErrorCount = 0
                  /\ events[Len(events)].event = "cell"

----------------------------------------------------------------------------
(* Reading the calls of the pure functions *)

Called(name) == call.fn = name /\ call.at \in {"returned", "raised"}

(* C21: build_trend_sql, called with a periods_ahead outside 1..24 or a   *)
(* period_interval outside day, week, month, quarter, year, returns one     *)
(* error diagnostic, TREND_INVALID_PERIODS or TREND_INVALID_INTERVAL, and   *)
(* no data; called with both in range it returns ok with the trend SQL.     *)
C21_TrendParametersRejected ==
    Called("build_trend_sql") =>
        LET periods  == call.args[2]
            interval == call.args[3]
            in_range == periods \in 1..24 /\ interval \in {"day", "week", "month", "quarter", "year"}
        IN  /\ call.at = "returned"
            /\ ret # None
            /\ in_range => (ok(ret[1]) /\ ret[1].data # None /\ ret[1].diagnostics = <<>>)
            /\ ~in_range =>
                  /\ ret[1].data = None
                  /\ Len(ret[1].diagnostics) = 1
                  /\ ret[1].diagnostics[1].severity = "error"
                  /\ ret[1].diagnostics[1].code \in {"TREND_INVALID_PERIODS", "TREND_INVALID_INTERVAL"}
                  /\ interval \in {"day", "week", "month", "quarter", "year"} =>
                        ret[1].diagnostics[1].code = "TREND_INVALID_PERIODS"
                  /\ periods \in 1..24 =>
                        ret[1].diagnostics[1].code = "TREND_INVALID_INTERVAL"

RowsWhere(rows, time, period_type) ==
    {i \in DOMAIN rows : rows[i].time = time /\ rows[i].period_type = period_type}

(* C22 as stated: the query built for valid parameters returns, in        *)
(* ascending order of the time field, every baseline row tagged actual,     *)
(* exactly one bridge row tagged projected at the last actual time, and     *)
(* exactly periods_ahead rows tagged projected at last time + k intervals,  *)
(* k = 1..periods_ahead, from one series generator of that size.            *)
C22_TrendQueryRows ==
    Called("trend_query") =>
        LET rows    == call.args[1]
            periods == call.args[2]
            out     == ret[1]
            last    == MaxTime(rows)
        IN  /\ call.text.periods = periods
            /\ \A i, j \in DOMAIN out : i < j => ~TimeBefore(out[j].time, out[i].time)
            /\ \A t \in BaselineTimes :
                  Cardinality(RowsWhere(out, t, "actual")) = Cardinality(RowsWhere(rows, t, ""))
            /\ Cardinality({i \in DOMAIN out : out[i].period_type = "actual"}) = Len(rows)
            /\ Cardinality({i \in DOMAIN out : out[i].period_type = "projected"}) = periods + 1
            /\ last # None
            /\ Cardinality(RowsWhere(out, last, "projected")) = 1
            /\ \A k \in 1..periods :
                  Cardinality(RowsWhere(out, Some(last[1] + k), "projected")) = 1

(* the units validate_chart_spec checks: the entries of the layer array,  *)
(* or the spec itself                                                       *)
UnitsChecked(spec) ==
    IF spec.layer.form = "list" THEN spec.layer.units
    ELSE <<[isdict |-> TRUE, mark |-> spec.mark, encoding |-> spec.encoding, transform |-> ""]>>

ObjectChannels(unit) ==
    {c \in DOMAIN unit.encoding.ch : unit.encoding.ch[c].isdict}

FieldViolations(unit, columns) ==
    {c \in ObjectChannels(unit) :
        /\ unit.encoding.ch[c].field # ""
        /\ columns # <<>>
        /\ \A k \in DOMAIN columns : columns[k] # unit.encoding.ch[c].field}

TypeViolations(unit) ==
    {c \in ObjectChannels(unit) :
        /\ unit.encoding.ch[c].type # ""
        /\ unit.encoding.ch[c].type \notin {"nominal", "ordinal", "quantitative", "temporal"}}

MarkViolation(unit) ==
    \/ unit.mark.form = "absent"
    \/ /\ unit.mark.form \in {"str", "dict"}
       /\ unit.mark.type # ""
       /\ unit.mark.type \notin {"bar", "line", "point", "area", "rect", "text", "arc", "circle", "square", "tick"}

Violations(unit, columns) ==
    IF ~unit.isdict THEN 1
    ELSE (IF MarkViolation(unit) THEN 1 ELSE 0)
         + (IF unit.encoding.form # "object" THEN 1
            ELSE Cardinality(FieldViolations(unit, columns)) + Cardinality(TypeViolations(unit)))

RECURSIVE SumViolations(_, _)
SumViolations(units, columns) ==
    IF units = <<>> THEN 0
    ELSE Violations(Head(units), columns) + SumViolations(Tail(units), columns)

(* C23: validate_chart_spec(spec, columns) is ok exactly when every unit  *)
(* it checks (each entry of the layer array, or else the spec itself) has a *)
(* mark whose named type, if any, is allowed, an encoding that is an        *)
(* object, every channel field among the columns (not checked for empty     *)
(* columns) and every channel type among the four allowed; a spec that is   *)
(* not empty gets one diagnostic per violation over all its units, an       *)
(* accepted spec is returned as data, a rejected one returns no data.       *)
C23_ChartSpecOkIff ==
    Called("validate_chart_spec") =>
        LET spec    == call.args[1]
            columns == call.args[2]
            units   == UnitsChecked(spec)
        IN  /\ ok(ret[1]) <=> \A k \in DOMAIN units : Violations(units[k], columns) = 0
            /\ IF IsEmptySpec(spec)
               THEN Len(ret[1].diagnostics) = 1
               ELSE Len(ret[1].diagnostics) = SumViolations(units, columns)
            /\ \A i \in DOMAIN ret[1].diagnostics : ret[1].diagnostics[i].severity = "error"
            /\ ret[1].data = IF ok(ret[1]) THEN Some(spec) ELSE None

(* C23 witness: of two layers the first is valid and the second is not;   *)
(* the spec was rejected with the second layer's two diagnostics            *)
C23_Witness ==
    /\ Called("validate_chart_spec")
    /\ call.args[1].layer.form = "list"
    /\ Len(call.args[1].layer.units) = 2
    /\ call.args[2] # <<>>
    /\ Violations(call.args[1].layer.units[1], call.args[2]) = 0
    /\ Violations(call.args[1].layer.units[2], call.args[2]) = 2
    /\ ~ok(ret[1])
    /\ Len(ret[1].diagnostics) = 2

TimeColumns == ColsOfClass("time", call.args[1], call.args[2], Enriched)
CategoryColumns == ColsOfClass("cat", call.args[1], call.args[2], Enriched)
MeasureColumns == ColsOfClass("measure", call.args[1], call.args[2], Enriched)

(* the fields a spec's encoding names *)
FieldsOf(spec) ==
    {spec.encoding.ch[c].field : c \in {k \in DOMAIN spec.encoding.ch : spec.encoding.ch[k].field # ""}}

IsTextDisplay(spec, field) ==
    /\ spec.mark.type = "text"
    /\ DOMAIN spec.encoding.ch = {"text"}
    /\ spec.encoding.ch.text.field = field

IsBar(spec, x, y) ==
    /\ spec.mark.type = "bar"
    /\ spec.encoding.ch.x.field = x /\ spec.encoding.ch.x.type = "nominal"
    /\ spec.encoding.ch.x.extra = "sort=-y"
    /\ spec.encoding.ch.y.field = y /\ spec.encoding.ch.y.type = "quantitative"

C25_ThemeMergeNonDestructive ==
    Called("apply_theme") =>
        LET spec    == call.args[1]
            out     == ret[1]
            cfg_in  == IF spec.config.present THEN spec.config.entries ELSE <<>>
            cfg_out == out.config.entries
        IN  /\ out.mark = spec.mark /\ out.encoding = spec.encoding /\ out.layer = spec.layer
            /\ out.transform = spec.transform
            /\ out.width = spec.width /\ out.height = spec.height
            /\ out.config.present
            /\ DOMAIN cfg_out = (DOMAIN cfg_in) \cup (DOMAIN LUMEN_THEME)
            /\ \A k \in DOMAIN cfg_in :
                  IF cfg_in[k].isdict /\ k \in DOMAIN LUMEN_THEME /\ LUMEN_THEME[k].isdict
                  THEN /\ cfg_out[k].isdict
                       /\ \A e \in DOMAIN cfg_in[k].entries :
                             /\ e \in DOMAIN cfg_out[k].entries
                             /\ cfg_out[k].entries[e] = cfg_in[k].entries[e]
                       /\ \A e \in (DOMAIN cfg_out[k].entries) \ (DOMAIN cfg_in[k].entries) :
                             /\ e \in DOMAIN LUMEN_THEME[k].entries
                             /\ cfg_out[k].entries[e] = LUMEN_THEME[k].entries[e]
                  ELSE cfg_out[k] = cfg_in[k]
            /\ \A k \in (DOMAIN LUMEN_THEME) \ (DOMAIN cfg_in) : cfg_out[k] = LUMEN_THEME[k]
            /\ out.schema = IF spec.schema = ""
                            THEN "https://vega.github.io/schema/vega-lite/v5.json"
                            ELSE spec.schema
            /\ call.args[2] = spec
            /\ apply_theme(out) = out

(* C25 witness: a spec with its own font, axis colours, custom key and    *)
(* $schema was themed: its axis object kept its entries and gained the      *)
(* theme's, its font and $schema stayed                                     *)
C25_Witness ==
    /\ Called("apply_theme")
    /\ call.args[1].config.present
    /\ DOMAIN call.args[1].config.entries = {"font", "axis", "custom"}
    /\ call.args[1].schema # ""
    /\ ret[1].config.entries.axis.entries.gridColor = "#fff"
    /\ ret[1].config.entries.axis.entries.labelFontSize = "11"
    /\ ret[1].config.entries.font = Scalar("Georgia")
    /\ ret[1].schema = call.args[1].schema

(* C26 as stated: after any sequence of add_cell, update_cell and        *)
(* delete_cell the conversation_position values of the notebook's cells     *)
(* are pairwise distinct and strictly increasing in list order.             *)
C26_PositionsStrictlyIncreasing ==
    \A i, j \in DOMAIN store :
        i < j => store[i].context.conversation_position < store[j].context.conversation_position

FinalPlan == extract_tool_input(log.planner[Len(log.planner)].response, "plan_query")[1]

FinalTrendParams ==
    TrendParams(Get(FinalPlan.whatif, "time_field", ""), Get(FinalPlan.whatif, "measure", ""),
                Get(FinalPlan.whatif, "periods_ahead", 3),
                Get(FinalPlan.whatif, "period_interval", "month"))

SupersededPlans ==
    {messages[i].input[1] : i \in {j \in DOMAIN messages : messages[j].input # None}}

PlanOfCall(k) == extract_tool_input(log.planner[k].response, "plan_query")[1]

(* the diagnostics of the failed attempt whose plan is plan, as the       *)
(* tool_result of its correction carries them                               *)
CarriesDiagnostics(content, plan) ==
    LET validation == validate_sql(plan.sql)
    IN  IF ~ok(validation)
        THEN /\ content.kind = "SQL validation failed"
             /\ content.errors = Messages(validation.diagnostics)
             /\ content.errors # <<>>
        ELSE /\ content.kind = "SQL execution error"
             /\ \E db \in DbErrors :
                   LET exec_result == execute_query(db, plan.sql, MaxResultRows)
                   IN  /\ content.errors = Messages(SelectSeq(exec_result.diagnostics, IsError))
                       /\ content.hints = Hints(SelectSeq(exec_result.diagnostics, HasHint))
             /\ content.errors # <<>>

(* C28: the k-th planner call of an ask sees the question followed by two *)
(* messages per earlier attempt, in attempt order: the assistant tool_use   *)
(* holding that attempt's plan and the user tool_result of the same id      *)
(* holding that attempt's diagnostics; the ids of the corrections are       *)
(* pairwise distinct; what a call saw is a prefix of what every later call  *)
(* sees and of the conversation now; and the conversation holds exactly two *)
(* messages per correcting event.                                           *)
C28_CorrectionAppendsTwoMessages ==
    fn = "ask" =>
        /\ messages # <<>> => Len(messages) = 1 + 2 * StageCount("correcting")
        /\ \A k \in DOMAIN log.planner :
              LET seen == log.planner[k].seen
              IN  /\ Len(seen) = 1 + 2 * (k - 1)
                  /\ seen[1] = QuestionMessage(inp.question)
                  /\ seen = SubSeq(messages, 1, Len(seen))
                  /\ \A j \in 1..(k - 1) :
                        /\ seen = log.planner[j].seen \o SubSeq(seen, 2 * j, Len(seen))
                        /\ seen[2 * j].role = "assistant"
                        /\ seen[2 * j].type = "tool_use"
                        /\ seen[2 * j].input = Some(PlanOfCall(j))
                        /\ seen[2 * j + 1].role = "user"
                        /\ seen[2 * j + 1].type = "tool_result"
                        /\ seen[2 * j + 1].id = seen[2 * j].id
                        /\ CarriesDiagnostics(seen[2 * j + 1].content, PlanOfCall(j))
                        /\ \A i \in 1..(j - 1) : seen[2 * i].id # seen[2 * j].id

(* C28 witness: the last planner call an ask can make, after one          *)
(* correction for a validation failure and one for an execution error       *)
C28_Witness ==
    /\ fn = "ask"
    /\ Len(log.planner) = MAX_RETRIES + 1
    /\ Len(log.planner[MAX_RETRIES + 1].seen) = 1 + 2 * MAX_RETRIES
    /\ \E i, j \in DOMAIN messages :
          /\ messages[i].content.kind = "SQL validation failed"
          /\ messages[j].content.kind = "SQL execution error"
          /\ messages[j].content.hints # <<>>

RECURSIVE StagesOf(_)
StagesOf(es) ==
    IF es = <<>> THEN <<>>
    ELSE (IF IsStage(Head(es)) THEN <<Head(es).stage>> ELSE <<>>) \o StagesOf(Tail(es))

AcceptedBefore(i) ==
    \E j \in DOMAIN log.valid :
        /\ log.valid[j].sql = log.exec[i].sql
        /\ log.valid[j].ok
        /\ log.valid[j].attempt = log.exec[i].attempt

(* C30 as stated: every SQL text passed to the executor during an ask or  *)
(* an edited-SQL run, the trend-rewritten query included, was passed to     *)
(* validate_sql and accepted by it before it was executed.                  *)
C30_ExecutedSqlWasValidated ==
    \A i \in DOMAIN log.exec : AcceptedBefore(i)

====
